---------------------------- MODULE Spec2Model ----------------------------
(* A model of kilo.c, a single-file terminal text editor.                  *)
(* Characters are one-character strings; C indices (0-based) are kept for  *)
(* rows, columns and cursor, and converted where a sequence is indexed.    *)
EXTENDS Integers, Sequences, FiniteSets, TLC

(***************************************************************************)
(* Configuration constants, keys and highlight classes                     *)
(***************************************************************************)
TAB_STOP == 8
QUIT_TIMES == 3

HL_NORMAL == 0
HL_COMMENT == 1
HL_MLCOMMENT == 2
HL_KEYWORD1 == 3
HL_KEYWORD2 == 4
HL_STRING == 5
HL_NUMBER == 6
HL_MATCH == 7

HL_NUMBERS == 1
HL_STRINGS == 2

\* The terminating '\0' of a C string, and the value 0 of a char variable.
NUL == "NUL"
TAB == "\t"
SPACE == " "
LF == "\n"
CR == "\r"
QUOTE == "\""
APOS == "'"
BACKSLASH == "\\"

ESC == "ESC"
ENTER == CR
KEY_BACKSPACE == "BACKSPACE"
KEY_ARROW_LEFT == "ARROW_LEFT"
KEY_ARROW_RIGHT == "ARROW_RIGHT"
KEY_ARROW_UP == "ARROW_UP"
KEY_ARROW_DOWN == "ARROW_DOWN"
KEY_DEL == "DEL"
KEY_HOME == "HOME"
KEY_END == "END"
KEY_PAGE_UP == "PAGE_UP"
KEY_PAGE_DOWN == "PAGE_DOWN"
CTRL_Q == "^Q"
CTRL_S == "^S"
CTRL_F == "^F"
CTRL_H == "^H"
CTRL_L == "^L"

\* The keys that are not a printable character below 128.
SpecialKeys ==
  {ESC, ENTER, KEY_BACKSPACE, KEY_ARROW_LEFT, KEY_ARROW_RIGHT, KEY_ARROW_UP,
   KEY_ARROW_DOWN, KEY_DEL, KEY_HOME, KEY_END, KEY_PAGE_UP, KEY_PAGE_DOWN,
   CTRL_Q, CTRL_S, CTRL_F, CTRL_H, CTRL_L, TAB, LF, NUL}

\* !iscntrl(c) && c < 128
IsPrintable(c) == c \notin SpecialKeys

(***************************************************************************)
(* Filetypes                                                               *)
(***************************************************************************)
C_EXTS == << <<".", "c">>, <<".", "h">>, <<".", "c", "p", "p">>,
             <<".", "h", "p", "p">> >>

C_KW ==
  << <<"s","w","i","t","c","h">>, <<"i","f">>, <<"w","h","i","l","e">>,
     <<"f","o","r">>, <<"b","r","e","a","k">>,
     <<"c","o","n","t","i","n","u","e">>, <<"r","e","t","u","r","n">>,
     <<"e","l","s","e">>, <<"s","t","r","u","c","t">>, <<"u","n","i","o","n">>,
     <<"t","y","p","e","d","e","f">>, <<"s","t","a","t","i","c">>,
     <<"e","n","u","m">>, <<"c","l","a","s","s">>, <<"c","a","s","e">>,
     <<"i","n","t","|">>, <<"l","o","n","g","|">>,
     <<"d","o","u","b","l","e","|">>, <<"f","l","o","a","t","|">>,
     <<"c","h","a","r","|">>, <<"u","n","s","i","g","n","e","d","|">>,
     <<"s","i","g","n","e","d","|">>, <<"v","o","i","d","|">>,
     <<"s","i","z","e","_","t","|">>, <<"s","s","i","z","e","_","t","|">>,
     <<"b","o","o","l","|">> >>

HLDB ==
  << [filetype |-> "c", filematch |-> C_EXTS, keywords |-> C_KW,
      scs |-> <<"/", "/">>, mcs |-> <<"/", "*">>, mce |-> <<"*", "/">>,
      flags |-> HL_NUMBERS + HL_STRINGS] >>

HLDB_COUNT == Len(HLDB)

\* E.syntax is NULL or points into HLDB.
NoSyntax == 0

\* flags & bit, for a single-bit mask
HasFlag(flags, bit) == (flags \div bit) % 2 = 1

(***************************************************************************)
(* C string helpers                                                        *)
(***************************************************************************)
\* s[i] of a NUL-terminated buffer holding the characters of s
At(s, i) == IF i >= 0 /\ i < Len(s) THEN s[i + 1] ELSE NUL

\* !strncmp(&s[i], lit, strlen(lit))
StartsWith(s, i, lit) == \A k \in 1..Len(lit) : At(s, i + k - 1) = lit[k]

\* memset(&hl[i], v, n)
Fill(hl, i, n, v) ==
  [j \in 1..Len(hl) |-> IF j - 1 >= i /\ j - 1 < i + n THEN v ELSE hl[j]]

\* strstr(s, q): offset of the first occurrence of q in s, or -1
StrStr(s, q) ==
  LET hits == {i \in 0..Len(s) : StartsWith(s, i, q)}
  IN  IF hits = {} THEN -1 ELSE CHOOSE i \in hits : \A j \in hits : i <= j

Digits == {"0", "1", "2", "3", "4", "5", "6", "7", "8", "9"}
isdigit(c) == c \in Digits

WhiteSpace == {SPACE, TAB, LF, CR, "\f"}
isspace(c) == c \in WhiteSpace

Punctuation ==
  {",", ".", "(", ")", "+", "-", "/", "*", "=", "~", "%", "<", ">", "[", "]",
   ":", ";", "{", "}"}

(***************************************************************************)
(* Syntax highlighting                                                     *)
(***************************************************************************)
isSeparator(c) == isspace(c) \/ c = NUL \/ c \in Punctuation

\* keywords ending with | are keyword2; klen excludes the marker
KwIsKw2(kw) == kw[Len(kw)] = "|"
KwLen(kw) == IF KwIsKw2(kw) THEN Len(kw) - 1 ELSE Len(kw)

\* the keyword test without the check of the character after the keyword
KeywordMatches_NoBoundary(render, i, kw) ==
  \A k \in 1..KwLen(kw) : At(render, i + k - 1) = kw[k]

\* the test of one table entry at position i of render
KeywordMatches(render, i, kw) ==
  /\ \A k \in 1..KwLen(kw) : At(render, i + k - 1) = kw[k]
  /\ isSeparator(At(render, i + KwLen(kw)))

\* index of the first keyword of the table that matches at i, or 0
FirstKeyword(render, i, keywords) ==
  LET ms == {k \in 1..Len(keywords) : KeywordMatches(render, i, keywords[k])}
  IN  IF ms = {} THEN 0 ELSE CHOOSE k \in ms : \A m \in ms : k <= m

\* the scan loop that takes a line-comment marker inside a string for a comment
RECURSIVE SyntaxScan_NoStringGuard(_, _, _, _, _, _, _)
SyntaxScan_NoStringGuard(syn, render, i, hl, prev_sep, in_string, in_comment) ==
  IF i >= Len(render)
  THEN [hl |-> hl, in_comment |-> in_comment]
  ELSE
    LET rsize == Len(render)
        c == render[i + 1]
        prev_hl == IF i > 0 THEN hl[i] ELSE HL_NORMAL
        scs_len == Len(syn.scs)
        mcs_len == Len(syn.mcs)
        mce_len == Len(syn.mce)
        ml == mcs_len # 0 /\ mce_len # 0 /\ in_string = NUL
        kw == IF prev_sep THEN FirstKeyword(render, i, syn.keywords) ELSE 0
    IN
    IF scs_len # 0 /\ ~in_comment /\ StartsWith(render, i, syn.scs)
    THEN [hl |-> Fill(hl, i, rsize - i, HL_COMMENT), in_comment |-> in_comment]
    ELSE IF ml /\ in_comment
    THEN IF StartsWith(render, i, syn.mce)
         THEN SyntaxScan_NoStringGuard(syn, render, i + mce_len,
                         Fill(hl, i, mce_len, HL_MLCOMMENT), TRUE, in_string, FALSE)
         ELSE SyntaxScan_NoStringGuard(syn, render, i + 1,
                         Fill(hl, i, 1, HL_MLCOMMENT), prev_sep, in_string, TRUE)
    ELSE IF ml /\ StartsWith(render, i, syn.mcs)
    THEN SyntaxScan_NoStringGuard(syn, render, i + mcs_len,
                    Fill(hl, i, mcs_len, HL_MLCOMMENT), prev_sep, in_string, TRUE)
    ELSE IF HasFlag(syn.flags, HL_STRINGS) /\ in_string # NUL
    THEN IF c = BACKSLASH /\ i + 1 < rsize
         THEN SyntaxScan_NoStringGuard(syn, render, i + 2,
                         Fill(hl, i, 2, HL_STRING), prev_sep, in_string, in_comment)
         ELSE SyntaxScan_NoStringGuard(syn, render, i + 1, Fill(hl, i, 1, HL_STRING), TRUE,
                         IF c = in_string THEN NUL ELSE in_string, in_comment)
    ELSE IF HasFlag(syn.flags, HL_STRINGS) /\ (c = QUOTE \/ c = APOS)
    THEN SyntaxScan_NoStringGuard(syn, render, i + 1,
                    Fill(hl, i, 1, HL_STRING), prev_sep, c, in_comment)
    ELSE IF /\ HasFlag(syn.flags, HL_NUMBERS)
            /\ \/ isdigit(c) /\ (prev_sep \/ prev_hl = HL_NUMBER)
               \/ c = "." /\ prev_hl = HL_NUMBER
    THEN SyntaxScan_NoStringGuard(syn, render, i + 1,
                    Fill(hl, i, 1, HL_NUMBER), FALSE, in_string, in_comment)
    ELSE IF kw # 0
    THEN SyntaxScan_NoStringGuard(syn, render, i + KwLen(syn.keywords[kw]),
                    Fill(hl, i, KwLen(syn.keywords[kw]),
                         IF KwIsKw2(syn.keywords[kw]) THEN HL_KEYWORD2 ELSE HL_KEYWORD1),
                    FALSE, in_string, in_comment)
    ELSE SyntaxScan_NoStringGuard(syn, render, i + 1, hl, isSeparator(c), in_string, in_comment)

\* The scan loop of editorUpdateSyntax over one row, from position i.
RECURSIVE SyntaxScan(_, _, _, _, _, _, _)
SyntaxScan(syn, render, i, hl, prev_sep, in_string, in_comment) ==
  IF i >= Len(render)
  THEN [hl |-> hl, in_comment |-> in_comment]
  ELSE
    LET rsize == Len(render)
        c == render[i + 1]
        prev_hl == IF i > 0 THEN hl[i] ELSE HL_NORMAL
        scs_len == Len(syn.scs)
        mcs_len == Len(syn.mcs)
        mce_len == Len(syn.mce)
        ml == mcs_len # 0 /\ mce_len # 0 /\ in_string = NUL
        kw == IF prev_sep THEN FirstKeyword(render, i, syn.keywords) ELSE 0
    IN
    IF scs_len # 0 /\ in_string = NUL /\ ~in_comment /\ StartsWith(render, i, syn.scs)
    THEN [hl |-> Fill(hl, i, rsize - i, HL_COMMENT), in_comment |-> in_comment]
    ELSE IF ml /\ in_comment
    THEN IF StartsWith(render, i, syn.mce)
         THEN SyntaxScan(syn, render, i + mce_len,
                         Fill(hl, i, mce_len, HL_MLCOMMENT), TRUE, in_string, FALSE)
         ELSE SyntaxScan(syn, render, i + 1,
                         Fill(hl, i, 1, HL_MLCOMMENT), prev_sep, in_string, TRUE)
    ELSE IF ml /\ StartsWith(render, i, syn.mcs)
    THEN SyntaxScan(syn, render, i + mcs_len,
                    Fill(hl, i, mcs_len, HL_MLCOMMENT), prev_sep, in_string, TRUE)
    ELSE IF HasFlag(syn.flags, HL_STRINGS) /\ in_string # NUL
    THEN IF c = BACKSLASH /\ i + 1 < rsize
         THEN SyntaxScan(syn, render, i + 2,
                         Fill(hl, i, 2, HL_STRING), prev_sep, in_string, in_comment)
         ELSE SyntaxScan(syn, render, i + 1, Fill(hl, i, 1, HL_STRING), TRUE,
                         IF c = in_string THEN NUL ELSE in_string, in_comment)
    ELSE IF HasFlag(syn.flags, HL_STRINGS) /\ (c = QUOTE \/ c = APOS)
    THEN SyntaxScan(syn, render, i + 1,
                    Fill(hl, i, 1, HL_STRING), prev_sep, c, in_comment)
    ELSE IF /\ HasFlag(syn.flags, HL_NUMBERS)
            /\ \/ isdigit(c) /\ (prev_sep \/ prev_hl = HL_NUMBER)
               \/ c = "." /\ prev_hl = HL_NUMBER
    THEN SyntaxScan(syn, render, i + 1,
                    Fill(hl, i, 1, HL_NUMBER), FALSE, in_string, in_comment)
    ELSE IF kw # 0
    THEN SyntaxScan(syn, render, i + KwLen(syn.keywords[kw]),
                    Fill(hl, i, KwLen(syn.keywords[kw]),
                         IF KwIsKw2(syn.keywords[kw]) THEN HL_KEYWORD2 ELSE HL_KEYWORD1),
                    FALSE, in_string, in_comment)
    ELSE SyntaxScan(syn, render, i + 1, hl, isSeparator(c), in_string, in_comment)

\* editorUpdateSyntax that never re-highlights the following row
editorUpdateSyntax_NoPropagate(rows, k, n, syntax) ==
  LET row == rows[k + 1]
      blank == [j \in 1..row.rsize |-> HL_NORMAL]
  IN
  IF syntax = NoSyntax
  THEN [rows EXCEPT ![k + 1].hl = blank]
  ELSE
    LET in_comment0 == row.idx > 0 /\ rows[row.idx].hl_open_comment
        res == SyntaxScan(HLDB[syntax], row.render, 0, blank, TRUE, NUL, in_comment0)
    IN  [rows EXCEPT ![k + 1].hl = res.hl,
                     ![k + 1].hl_open_comment = res.in_comment]

\* editorUpdateSyntax(&E.row[k]) with E.row = rows, E.numrows = n, E.syntax = syntax.
\* The row's neighbours are found through row->idx, as in the source.
RECURSIVE editorUpdateSyntax(_, _, _, _)
editorUpdateSyntax(rows, k, n, syntax) ==
  LET row == rows[k + 1]
      blank == [j \in 1..row.rsize |-> HL_NORMAL]
  IN
  IF syntax = NoSyntax
  THEN [rows EXCEPT ![k + 1].hl = blank]
  ELSE
    LET in_comment0 == row.idx > 0 /\ rows[row.idx].hl_open_comment
        res == SyntaxScan(HLDB[syntax], row.render, 0, blank, TRUE, NUL, in_comment0)
        changed == row.hl_open_comment # res.in_comment
        rows1 == [rows EXCEPT ![k + 1].hl = res.hl,
                              ![k + 1].hl_open_comment = res.in_comment]
    IN  IF changed /\ row.idx + 1 < n
        THEN editorUpdateSyntax(rows1, row.idx + 1, n, syntax)
        ELSE rows1

\* the rows editorUpdateSyntax(&E.row[k]) highlights, in the order of the
\* calls, when the row above row k ends with open-comment flag in_comment0;
\* a row below is scanned with its own render and the new flag of the row
\* above it
RECURSIVE SyntaxVisits(_, _, _, _, _, _)
SyntaxVisits(rows, k, n, syntax, in_comment0, visited) ==
  IF syntax = NoSyntax THEN Append(visited, k)
  ELSE
    LET row == rows[k + 1]
        blank == [j \in 1..row.rsize |-> HL_NORMAL]
        Onward(in_comment) ==
          IF row.hl_open_comment # in_comment /\ row.idx + 1 < n
          THEN SyntaxVisits(rows, row.idx + 1, n, syntax, in_comment, Append(visited, k))
          ELSE Append(visited, k)
    IN  CHOOSE v \in {Onward(x) : x \in {SyntaxScan(HLDB[syntax], row.render, 0, blank,
                                                   TRUE, NUL, in_comment0).in_comment}} :
          TRUE

(***************************************************************************)
(* Rows                                                                    *)
(***************************************************************************)
RECURSIVE CxToRxFrom(_, _, _, _)
CxToRxFrom(chars, j, cx, rx) ==
  IF j >= cx THEN rx
  ELSE LET rx1 == IF At(chars, j) = TAB
                  THEN rx + (TAB_STOP - 1) - (rx % TAB_STOP) ELSE rx
       IN  CxToRxFrom(chars, j + 1, cx, rx1 + 1)

\* rowCxToRx with every tab taken to be TAB_STOP columns wide
RECURSIVE CxToRxFixedTab(_, _, _, _)
CxToRxFixedTab(chars, j, cx, rx) ==
  IF j >= cx THEN rx
  ELSE CxToRxFixedTab(chars, j + 1, cx,
                      IF At(chars, j) = TAB THEN rx + TAB_STOP ELSE rx + 1)

rowCxToRx_FixedTab(row, cx) == CxToRxFixedTab(row.chars, 0, cx, 0)

rowCxToRx(row, cx) == CxToRxFrom(row.chars, 0, cx, 0)

RECURSIVE RxToCxFrom(_, _, _, _, _)
RxToCxFrom(chars, size, cx, cur_rx, rx) ==
  IF cx >= size THEN cx
  ELSE LET r1 == IF At(chars, cx) = TAB
                 THEN cur_rx + (TAB_STOP - 1) - (cur_rx % TAB_STOP) ELSE cur_rx
           r2 == r1 + 1
       IN  IF r2 > rx THEN cx ELSE RxToCxFrom(chars, size, cx + 1, r2, rx)

\* rowRxToCx that takes the render column for the character column
rowRxToCx_NoTabs(row, rx) == IF rx > row.size THEN row.size ELSE rx

rowRxToCx(row, rx) == RxToCxFrom(row.chars, row.size, 0, 0, rx)

\* while (idx % TAB_STOP != 0) render[idx++] = ' ';
RECURSIVE PadToStop(_)
PadToStop(render) ==
  IF Len(render) % TAB_STOP # 0 THEN PadToStop(Append(render, SPACE)) ELSE render

\* the expansion loop of editorUpdateRow
RECURSIVE RenderFrom(_, _, _, _)
RenderFrom(chars, size, j, render) ==
  IF j >= size THEN render
  ELSE IF At(chars, j) = TAB
       THEN RenderFrom(chars, size, j + 1, PadToStop(Append(render, SPACE)))
       ELSE RenderFrom(chars, size, j + 1, Append(render, At(chars, j)))

\* editorUpdateRow without its closing call of editorUpdateSyntax
editorUpdateRow_NoSyntax(e, k) ==
  LET row == e.row[k + 1]
      render == RenderFrom(row.chars, row.size, 0, <<>>)
  IN  [e EXCEPT !.row[k + 1].render = render, !.row[k + 1].rsize = Len(render)]

\* editorUpdateRow(&E.row[k]); every row it highlights asks xrealloc for
\* rsize bytes, and a request for zero bytes is recorded in zero_alloc
editorUpdateRow(e, k) ==
  LET row == e.row[k + 1]
      render == RenderFrom(row.chars, row.size, 0, <<>>)
      rows1 == [e.row EXCEPT ![k + 1].render = render,
                             ![k + 1].rsize = Len(render)]
      zero == \E rs \in {rows1} :
                \E v \in {SyntaxVisits(rs, k, e.numrows, e.syntax,
                                       row.idx > 0 /\ rs[row.idx].hl_open_comment, <<>>)} :
                   \E j \in 1..Len(v) : rs[v[j] + 1].rsize = 0
  IN  [e EXCEPT !.row = editorUpdateSyntax(rows1, k, e.numrows, e.syntax),
                !.zero_alloc = @ \/ zero]

editorInsertRow(e, at, s) ==
  IF at < 0 \/ at > e.numrows THEN e
  ELSE
    LET new == [idx |-> at, size |-> Len(s), rsize |-> 0, chars |-> s,
                render |-> <<>>, hl |-> <<>>, hl_open_comment |-> FALSE]
        moved == [j \in 1..(e.numrows + 1) |->
                    IF j - 1 < at THEN e.row[j]
                    ELSE IF j - 1 = at THEN new
                    ELSE [e.row[j - 1] EXCEPT !.idx = @ + 1]]
        \* E.numrows is incremented only after the row has been updated
        e1 == editorUpdateRow([e EXCEPT !.row = moved], at)
    IN  [e1 EXCEPT !.numrows = @ + 1, !.dirty = @ + 1]

\* editorDelRow that leaves the idx of the rows it moves as they were
editorDelRow_NoRenumber(e, at) ==
  IF at < 0 \/ at >= e.numrows THEN e
  ELSE
    LET moved == [j \in 1..(e.numrows - 1) |->
                    IF j - 1 < at THEN e.row[j] ELSE e.row[j + 1]]
    IN  [e EXCEPT !.row = moved, !.numrows = @ - 1, !.dirty = @ + 1]

editorDelRow(e, at) ==
  IF at < 0 \/ at >= e.numrows THEN e
  ELSE
    LET moved == [j \in 1..(e.numrows - 1) |->
                    IF j - 1 < at THEN e.row[j]
                    ELSE [e.row[j + 1] EXCEPT !.idx = @ - 1]]
    IN  [e EXCEPT !.row = moved, !.numrows = @ - 1, !.dirty = @ + 1]

\* rowInsertChar(&E.row[k], at, c)
rowInsertChar(e, k, at0, c) ==
  LET row == e.row[k + 1]
      at == IF at0 < 0 \/ at0 > row.size THEN row.size ELSE at0
      chars == SubSeq(row.chars, 1, at) \o <<c>> \o SubSeq(row.chars, at + 1, row.size)
      e1 == [e EXCEPT !.row[k + 1].chars = chars, !.row[k + 1].size = @ + 1]
  IN  [editorUpdateRow(e1, k) EXCEPT !.dirty = @ + 1]

\* rowAppendString(&E.row[k], s, len)
rowAppendString(e, k, s) ==
  LET e1 == [e EXCEPT !.row[k + 1].chars = @ \o s,
                      !.row[k + 1].size = @ + Len(s)]
  IN  [editorUpdateRow(e1, k) EXCEPT !.dirty = @ + 1]

\* rowDelChar(&E.row[k], at)
rowDelChar(e, k, at) ==
  LET row == e.row[k + 1]
  IN  IF at < 0 \/ at >= row.size THEN e
      ELSE
        LET chars == SubSeq(row.chars, 1, at) \o SubSeq(row.chars, at + 2, row.size)
            e1 == [e EXCEPT !.row[k + 1].chars = chars, !.row[k + 1].size = @ - 1]
        IN  [editorUpdateRow(e1, k) EXCEPT !.dirty = @ + 1]

(***************************************************************************)
(* Editor operations                                                       *)
(***************************************************************************)
editorInsertChar(e, c) ==
  LET e1 == IF e.cy = e.numrows THEN editorInsertRow(e, e.numrows, <<>>) ELSE e
      e2 == rowInsertChar(e1, e1.cy, e1.cx, c)
  IN  [e2 EXCEPT !.cx = @ + 1]

\* editorInsertNewline that truncates the row without updating it
editorInsertNewline_NoUpdate(e) ==
  LET e2 ==
        IF e.cx = 0 THEN editorInsertRow(e, e.cy, <<>>)
        ELSE
          LET row == e.row[e.cy + 1]
              e1 == editorInsertRow(e, e.cy + 1, SubSeq(row.chars, e.cx + 1, row.size))
          IN  [e1 EXCEPT !.row[e.cy + 1].size = e.cx,
                         !.row[e.cy + 1].chars = SubSeq(@, 1, e.cx)]
  IN  [e2 EXCEPT !.cy = @ + 1, !.cx = 0]

editorInsertNewline(e) ==
  LET e2 ==
        IF e.cx = 0 THEN editorInsertRow(e, e.cy, <<>>)
        ELSE
          LET row == e.row[e.cy + 1]
              e1 == editorInsertRow(e, e.cy + 1, SubSeq(row.chars, e.cx + 1, row.size))
              cut == [e1 EXCEPT !.row[e.cy + 1].size = e.cx,
                                !.row[e.cy + 1].chars = SubSeq(@, 1, e.cx)]
          IN  editorUpdateRow(cut, e.cy)
  IN  [e2 EXCEPT !.cy = @ + 1, !.cx = 0]

editorDelChar(e) ==
  IF e.cy = e.numrows THEN e
  ELSE IF e.cx = 0 /\ e.cy = 0 THEN e
  ELSE IF e.cx > 0
  THEN [rowDelChar(e, e.cy, e.cx - 1) EXCEPT !.cx = @ - 1]
  ELSE
    LET row == e.row[e.cy + 1]
        e1 == [e EXCEPT !.cx = e.row[e.cy].size]
        e2 == rowAppendString(e1, e.cy - 1, row.chars)
        e3 == editorDelRow(e2, e.cy)
    IN  [e3 EXCEPT !.cy = @ - 1]

(***************************************************************************)
(* File I/O                                                                *)
(***************************************************************************)
\* editorRowsToString that puts newlines between the rows only
RECURSIVE RowsJoinedFrom(_, _, _)
RowsJoinedFrom(e, j, buf) ==
  IF j >= e.numrows THEN buf
  ELSE RowsJoinedFrom(e, j + 1,
         buf \o SubSeq(e.row[j + 1].chars, 1, e.row[j + 1].size)
             \o (IF j + 1 < e.numrows THEN <<LF>> ELSE <<>>))

\* editorRowsToString: every row's characters followed by one newline
RECURSIVE RowsToStringFrom(_, _, _)
RowsToStringFrom(e, j, buf) ==
  IF j >= e.numrows THEN buf
  ELSE RowsToStringFrom(e, j + 1,
         buf \o SubSeq(e.row[j + 1].chars, 1, e.row[j + 1].size) \o <<LF>>)

editorRowsToString(e) == RowsToStringFrom(e, 0, <<>>)

\* the precomputed total length of editorRowsToString
RECURSIVE TotLenFrom(_, _, _)
TotLenFrom(e, j, totlen) ==
  IF j >= e.numrows THEN totlen
  ELSE TotLenFrom(e, j + 1, totlen + e.row[j + 1].size + 1)

RowsToStringLen(e) == TotLenFrom(e, 0, 0)

\* getline: the next line of the file from offset pos, its newline included
RECURSIVE GetLineEnd(_, _)
GetLineEnd(file, pos) ==
  IF pos >= Len(file) THEN pos
  ELSE IF At(file, pos) = LF THEN pos + 1
  ELSE GetLineEnd(file, pos + 1)

\* while (len > 0 && (line[len-1] == '\n' || line[len-1] == '\r')) len--;
RECURSIVE StripEol(_)
StripEol(line) ==
  IF Len(line) > 0 /\ (line[Len(line)] = LF \/ line[Len(line)] = CR)
  THEN StripEol(SubSeq(line, 1, Len(line) - 1))
  ELSE line

\* the read loop of editorOpen
RECURSIVE OpenLoop(_, _, _)
OpenLoop(e, file, pos) ==
  IF pos >= Len(file) THEN e
  ELSE LET nxt == GetLineEnd(file, pos)
           line == SubSeq(file, pos + 1, nxt)
       IN  OpenLoop(editorInsertRow(e, e.numrows, StripEol(line)), file, nxt)

\* strrchr(filename, '.') as the suffix from the last dot, or <<>> when none
LastDotSuffix(name) ==
  LET dots == {i \in 1..Len(name) : name[i] = "."}
  IN  IF dots = {} THEN <<>>
      ELSE SubSeq(name, CHOOSE i \in dots : \A j \in dots : j <= i, Len(name))

\* strstr(filename, pat) != NULL
Contains(s, q) == StrStr(s, q) # -1

\* one filematch entry against E.filename
FileMatches(name, pat) ==
  LET is_ext == pat[1] = "."
      ext == LastDotSuffix(name)
  IN  \/ is_ext /\ ext # <<>> /\ ext = pat
      \/ ~is_ext /\ Contains(name, pat)

\* filename NULL
NoName == <<>>

\* editorUpdateSyntax on rows r, r+1, ... in order, as editorSelectSyntax does
RECURSIVE UpdateAllFrom(_, _, _, _)
UpdateAllFrom(rows, r, n, syntax) ==
  IF r >= n THEN rows
  ELSE UpdateAllFrom(editorUpdateSyntax(rows, r, n, syntax), r + 1, n, syntax)

editorSelectSyntax(e) ==
  LET e0 == [e EXCEPT !.syntax = NoSyntax]
      ms == {j \in 1..HLDB_COUNT :
               \E i \in 1..Len(HLDB[j].filematch) :
                  FileMatches(e.filename, HLDB[j].filematch[i])}
  IN  IF e.filename = NoName \/ ms = {} THEN e0
      ELSE LET j == CHOOSE j \in ms : \A m \in ms : j <= m
           IN  [e0 EXCEPT !.syntax = j,
                          !.row = UpdateAllFrom(e.row, 0, e.numrows, j),
                          !.zero_alloc = @ \/ \E r \in 1..e.numrows : e.row[r].rsize = 0]

editorOpen(e, filename, file) ==
  LET e1 == editorSelectSyntax([e EXCEPT !.filename = filename])
      e2 == OpenLoop(e1, file, 0)
  IN  [e2 EXCEPT !.dirty = 0]

\* editorMoveCursor without the final snap of cx to the row's length
editorMoveCursor_NoSnap(e, key) ==
  LET hasrow == e.cy < e.numrows
      size == IF hasrow THEN e.row[e.cy + 1].size ELSE 0
  IN  CASE key = KEY_ARROW_LEFT ->
             IF e.cx # 0 THEN [e EXCEPT !.cx = @ - 1]
             ELSE IF e.cy > 0
                  THEN [e EXCEPT !.cy = @ - 1, !.cx = e.row[e.cy].size]
                  ELSE e
        [] key = KEY_ARROW_RIGHT ->
             IF hasrow /\ e.cx < size THEN [e EXCEPT !.cx = @ + 1]
             ELSE IF hasrow /\ e.cx = size
                  THEN [e EXCEPT !.cy = @ + 1, !.cx = 0]
                  ELSE e
        [] key = KEY_ARROW_UP ->
             IF e.cy # 0 THEN [e EXCEPT !.cy = @ - 1] ELSE e
        [] key = KEY_ARROW_DOWN ->
             IF e.cy < e.numrows THEN [e EXCEPT !.cy = @ + 1] ELSE e
        [] OTHER -> e

(***************************************************************************)
(* Cursor and viewport                                                     *)
(***************************************************************************)
editorMoveCursor(e, key) ==
  LET hasrow == e.cy < e.numrows
      size == IF hasrow THEN e.row[e.cy + 1].size ELSE 0
      e1 == CASE key = KEY_ARROW_LEFT ->
                   IF e.cx # 0 THEN [e EXCEPT !.cx = @ - 1]
                   ELSE IF e.cy > 0
                        THEN [e EXCEPT !.cy = @ - 1, !.cx = e.row[e.cy].size]
                        ELSE e
              [] key = KEY_ARROW_RIGHT ->
                   IF hasrow /\ e.cx < size THEN [e EXCEPT !.cx = @ + 1]
                   ELSE IF hasrow /\ e.cx = size
                        THEN [e EXCEPT !.cy = @ + 1, !.cx = 0]
                        ELSE e
              [] key = KEY_ARROW_UP ->
                   IF e.cy # 0 THEN [e EXCEPT !.cy = @ - 1] ELSE e
              [] key = KEY_ARROW_DOWN ->
                   IF e.cy < e.numrows THEN [e EXCEPT !.cy = @ + 1] ELSE e
              [] OTHER -> e
      rowlen == IF e1.cy >= e1.numrows THEN 0 ELSE e1.row[e1.cy + 1].size
  IN  IF e1.cx > rowlen THEN [e1 EXCEPT !.cx = rowlen] ELSE e1

\* editorScroll that never moves the row offset up
editorScroll_NoUp(e) ==
  LET rx == IF e.cy < e.numrows THEN rowCxToRx(e.row[e.cy + 1], e.cx) ELSE 0
      ro2 == IF e.cy >= e.rowoff + e.screenrows THEN e.cy - e.screenrows + 1
             ELSE e.rowoff
      co1 == IF rx < e.coloff THEN rx ELSE e.coloff
      co2 == IF rx >= co1 + e.screencols THEN rx - e.screencols + 1 ELSE co1
  IN  [e EXCEPT !.rx = rx, !.rowoff = ro2, !.coloff = co2]

editorScroll(e) ==
  LET rx == IF e.cy < e.numrows THEN rowCxToRx(e.row[e.cy + 1], e.cx) ELSE 0
      ro1 == IF e.cy < e.rowoff THEN e.cy ELSE e.rowoff
      ro2 == IF e.cy >= ro1 + e.screenrows THEN e.cy - e.screenrows + 1 ELSE ro1
      co1 == IF rx < e.coloff THEN rx ELSE e.coloff
      co2 == IF rx >= co1 + e.screencols THEN rx - e.screencols + 1 ELSE co1
  IN  [e EXCEPT !.rx = rx, !.rowoff = ro2, !.coloff = co2]

\* the only effect of editorRefreshScreen on the editor state
editorRefreshScreen(e) == editorScroll([e EXCEPT !.zero_alloc = FALSE])

\* while (times--) editorMoveCursor(key)
RECURSIVE MoveTimes(_, _, _)
MoveTimes(e, key, times) ==
  IF times <= 0 THEN e ELSE MoveTimes(editorMoveCursor(e, key), key, times - 1)

(***************************************************************************)
(* Search                                                                  *)
(***************************************************************************)
\* saved_hl == NULL
NULL_HL == << -1 >>

\* the scan loop with one iteration too few
RECURSIVE FindScan_Short(_, _, _, _, _, _)
FindScan_Short(e, query, current, direction, i, visited) ==
  IF i >= e.numrows - 1 THEN [hit |-> -1, match |-> -1, visited |-> visited]
  ELSE
    LET c1 == current + direction
        c2 == IF c1 = -1 THEN e.numrows - 1 ELSE c1
        c3 == IF c2 = e.numrows THEN 0 ELSE c2
        match == StrStr(e.row[c3 + 1].render, query)
    IN  IF match # -1
        THEN [hit |-> c3, match |-> match, visited |-> Append(visited, c3)]
        ELSE FindScan_Short(e, query, c3, direction, i + 1, Append(visited, c3))

\* The scan loop of editorFindCallback: the rows visited, in order, and the
\* row and offset of the hit (-1 when no row matched).
RECURSIVE FindScan(_, _, _, _, _, _)
FindScan(e, query, current, direction, i, visited) ==
  IF i >= e.numrows THEN [hit |-> -1, match |-> -1, visited |-> visited]
  ELSE
    LET c1 == current + direction
        c2 == IF c1 = -1 THEN e.numrows - 1 ELSE c1
        c3 == IF c2 = e.numrows THEN 0 ELSE c2
        match == StrStr(e.row[c3 + 1].render, query)
    IN  IF match # -1
        THEN [hit |-> c3, match |-> match, visited |-> Append(visited, c3)]
        ELSE FindScan(e, query, c3, direction, i + 1, Append(visited, c3))

\* editorFindCallback without the restore of the saved highlight
editorFindCallback_NoRestore(e, f, query, key) ==
  LET restore == FALSE
      e1 == IF restore
            THEN [e EXCEPT !.row[f.saved_hl_line + 1].hl =
                    [j \in 1..Len(@) |->
                       IF j <= e.row[f.saved_hl_line + 1].rsize /\ j <= Len(f.saved_hl)
                       THEN f.saved_hl[j] ELSE @[j]]]
            ELSE e
      f1 == IF restore
            THEN [f EXCEPT !.saved_hl = NULL_HL, !.saved_hl_line = -1,
                           !.held = @ - 1]
            ELSE f
  IN
  IF key = ENTER \/ key = ESC
  THEN [e |-> e1, f |-> [f1 EXCEPT !.last_match = -1, !.direction = 1],
        visited |-> <<>>]
  ELSE
    LET f2 == IF key = KEY_ARROW_RIGHT \/ key = KEY_ARROW_DOWN
              THEN [f1 EXCEPT !.direction = 1]
              ELSE IF key = KEY_ARROW_LEFT \/ key = KEY_ARROW_UP
              THEN [f1 EXCEPT !.direction = -1]
              ELSE [f1 EXCEPT !.last_match = -1, !.direction = 1]
        f3 == IF f2.last_match = -1 THEN [f2 EXCEPT !.direction = 1] ELSE f2
        s == FindScan(e1, query, f3.last_match, f3.direction, 0, <<>>)
    IN
    IF s.hit = -1 THEN [e |-> e1, f |-> f3, visited |-> s.visited]
    ELSE
      LET row == e1.row[s.hit + 1]
          e2 == [e1 EXCEPT !.cy = s.hit,
                           !.cx = rowRxToCx(row, s.match),
                           !.rowoff = e1.numrows,
                           !.row[s.hit + 1].hl = Fill(@, s.match, Len(query), HL_MATCH),
                           !.zero_alloc = @ \/ row.rsize = 0]
          f4 == [f3 EXCEPT !.last_match = s.hit,
                           !.saved_hl_line = s.hit,
                           !.saved_hl = SubSeq(row.hl, 1, row.rsize),
                           !.held = @ + 1]
      IN  [e |-> e2, f |-> f4, visited |-> s.visited]

\* editorFindCallback that sends the cursor home when nothing matches
editorFindCallback_NoMatchHome(e, f, query, key) ==
  LET restore == f.saved_hl # NULL_HL
      e1 == IF restore
            THEN [e EXCEPT !.row[f.saved_hl_line + 1].hl =
                    [j \in 1..Len(@) |->
                       IF j <= e.row[f.saved_hl_line + 1].rsize /\ j <= Len(f.saved_hl)
                       THEN f.saved_hl[j] ELSE @[j]]]
            ELSE e
      f1 == IF restore
            THEN [f EXCEPT !.saved_hl = NULL_HL, !.saved_hl_line = -1,
                           !.held = @ - 1]
            ELSE f
  IN
  IF key = ENTER \/ key = ESC
  THEN [e |-> e1, f |-> [f1 EXCEPT !.last_match = -1, !.direction = 1],
        visited |-> <<>>]
  ELSE
    LET f2 == IF key = KEY_ARROW_RIGHT \/ key = KEY_ARROW_DOWN
              THEN [f1 EXCEPT !.direction = 1]
              ELSE IF key = KEY_ARROW_LEFT \/ key = KEY_ARROW_UP
              THEN [f1 EXCEPT !.direction = -1]
              ELSE [f1 EXCEPT !.last_match = -1, !.direction = 1]
        f3 == IF f2.last_match = -1 THEN [f2 EXCEPT !.direction = 1] ELSE f2
        s == FindScan(e1, query, f3.last_match, f3.direction, 0, <<>>)
    IN
    IF s.hit = -1
    THEN [e |-> [e1 EXCEPT !.cx = 0, !.cy = 0], f |-> f3, visited |-> s.visited]
    ELSE
      LET row == e1.row[s.hit + 1]
          e2 == [e1 EXCEPT !.cy = s.hit,
                           !.cx = rowRxToCx(row, s.match),
                           !.rowoff = e1.numrows,
                           !.row[s.hit + 1].hl = Fill(@, s.match, Len(query), HL_MATCH),
                           !.zero_alloc = @ \/ row.rsize = 0]
          f4 == [f3 EXCEPT !.last_match = s.hit,
                           !.saved_hl_line = s.hit,
                           !.saved_hl = SubSeq(row.hl, 1, row.rsize),
                           !.held = @ + 1]
      IN  [e |-> e2, f |-> f4, visited |-> s.visited]

\* editorFindCallback(query, key) on the editor state e and its statics f;
\* the result holds both, and the rows the scan visited.
editorFindCallback(e, f, query, key) ==
  LET restore == f.saved_hl # NULL_HL
      e1 == IF restore
            THEN [e EXCEPT !.row[f.saved_hl_line + 1].hl =
                    [j \in 1..Len(@) |->
                       IF j <= e.row[f.saved_hl_line + 1].rsize /\ j <= Len(f.saved_hl)
                       THEN f.saved_hl[j] ELSE @[j]]]
            ELSE e
      f1 == IF restore
            THEN [f EXCEPT !.saved_hl = NULL_HL, !.saved_hl_line = -1,
                           !.held = @ - 1]
            ELSE f
  IN
  IF key = ENTER \/ key = ESC
  THEN [e |-> e1, f |-> [f1 EXCEPT !.last_match = -1, !.direction = 1],
        visited |-> <<>>]
  ELSE
    LET f2 == IF key = KEY_ARROW_RIGHT \/ key = KEY_ARROW_DOWN
              THEN [f1 EXCEPT !.direction = 1]
              ELSE IF key = KEY_ARROW_LEFT \/ key = KEY_ARROW_UP
              THEN [f1 EXCEPT !.direction = -1]
              ELSE [f1 EXCEPT !.last_match = -1, !.direction = 1]
        f3 == IF f2.last_match = -1 THEN [f2 EXCEPT !.direction = 1] ELSE f2
        s == FindScan(e1, query, f3.last_match, f3.direction, 0, <<>>)
    IN
    IF s.hit = -1 THEN [e |-> e1, f |-> f3, visited |-> s.visited]
    ELSE
      LET row == e1.row[s.hit + 1]
          e2 == [e1 EXCEPT !.cy = s.hit,
                           !.cx = rowRxToCx(row, s.match),
                           !.rowoff = e1.numrows,
                           !.row[s.hit + 1].hl = Fill(@, s.match, Len(query), HL_MATCH),
                           !.zero_alloc = @ \/ row.rsize = 0]
          f4 == [f3 EXCEPT !.last_match = s.hit,
                           !.saved_hl_line = s.hit,
                           !.saved_hl = SubSeq(row.hl, 1, row.rsize),
                           !.held = @ + 1]
      IN  [e |-> e2, f |-> f4, visited |-> s.visited]

(***************************************************************************)
(* Status messages (editorSetStatusMessage and its callers)                *)
(***************************************************************************)
\* sizeof(E.statusmsg), and of status[] and rstatus[] in editorDrawStatusBar
MSG_SIZE == 80

Min(a, b) == IF a < b THEN a ELSE b

\* what snprintf(dst, size, ...) leaves in dst for the formatted text s
Snprintf(size, s) == SubSeq(s, 1, Min(Len(s), size - 1))

\* %d of a non-negative int
RECURSIVE Dec(_)
Dec(n) ==
  IF n < 10 THEN <<CHOOSE d \in Digits : d = ToString(n)>>
  ELSE Dec(n \div 10) \o Dec(n % 10)

editorSetStatusMessage(e, text) == [e EXCEPT !.statusmsg = Snprintf(MSG_SIZE, text)]

HelpMsg ==
  <<"H", "E", "L", "P", ":", " ", "C", "t", "r", "l", "-", "S", " ", "s",
    "a", "v", "e", " ", "|", " ", "C", "t", "r", "l", "-", "Q", " ", "q",
    "u", "i", "t", " ", "|", " ", "C", "t", "r", "l", "-", "F", " ", "f",
    "i", "n", "d">>

\* "WARNING: Unsaved changes. Press Ctrl-Q %d more times to quit."
QuitWarning(n) ==
  <<"W", "A", "R", "N", "I", "N", "G", ":", " ", "U", "n", "s", "a", "v",
    "e", "d", " ", "c", "h", "a", "n", "g", "e", "s", ".", " ", "P", "r",
    "e", "s", "s", " ", "C", "t", "r", "l", "-", "Q", " ">>
  \o Dec(n) \o
  <<" ", "m", "o", "r", "e", " ", "t", "i", "m", "e", "s", " ", "t", "o",
    " ", "q", "u", "i", "t", ".">>

SaveAbortedMsg ==
  <<"S", "a", "v", "e", " ", "a", "b", "o", "r", "t", "e", "d">>

\* "%d bytes written to disk"
BytesWrittenMsg(len) ==
  Dec(len) \o
  <<" ", "b", "y", "t", "e", "s", " ", "w", "r", "i", "t", "t", "e", "n",
    " ", "t", "o", " ", "d", "i", "s", "k">>

\* strerror(errno) after a failed open, ftruncate or write
ErrorText(outcome) ==
  CASE outcome = "open" ->
  <<"P", "e", "r", "m", "i", "s", "s", "i", "o", "n", " ", "d", "e", "n",
    "i", "e", "d">>
    [] outcome = "truncate" ->
  <<"I", "n", "v", "a", "l", "i", "d", " ", "a", "r", "g", "u", "m", "e",
    "n", "t">>
    [] OTHER ->
  <<"N", "o", " ", "s", "p", "a", "c", "e", " ", "l", "e", "f", "t", " ",
    "o", "n", " ", "d", "e", "v", "i", "c", "e">>

\* "Can't save! I/O error: %s"
CantSaveMsg(outcome) ==
  <<"C", "a", "n", "'", "t", " ", "s", "a", "v", "e", "!", " ", "I", "/",
    "O", " ", "e", "r", "r", "o", "r", ":", " ">>
  \o ErrorText(outcome)

\* "Save as: %s (ESC to cancel)"
SaveAsPrompt(b) ==
  <<"S", "a", "v", "e", " ", "a", "s", ":", " ">>
  \o b \o
  <<" ", "(", "E", "S", "C", " ", "t", "o", " ", "c", "a", "n", "c", "e",
    "l", ")">>

\* "Search: %s (ESC/Arrows/Enter)"
SearchPrompt(b) ==
  <<"S", "e", "a", "r", "c", "h", ":", " ">>
  \o b \o
  <<" ", "(", "E", "S", "C", "/", "A", "r", "r", "o", "w", "s", "/", "E",
    "n", "t", "e", "r", ")">>

(***************************************************************************)
(* The status bar and the message bar                                      *)
(***************************************************************************)
NoNameText == <<"[", "N", "o", " ", "N", "a", "m", "e", "]">>
NoFtText == <<"n", "o", " ", "f", "t">>
ModifiedText == <<"(", "m", "o", "d", "i", "f", "i", "e", "d", ")">>

\* "%.20s - %d lines %s"
StatusText(e) ==
  LET name == IF e.filename = NoName THEN NoNameText ELSE e.filename
  IN  SubSeq(name, 1, Min(Len(name), 20)) \o <<" ", "-", " ">> \o Dec(e.numrows)
      \o <<" ", "l", "i", "n", "e", "s", " ">> \o (IF e.dirty # 0 THEN ModifiedText ELSE <<>>)

\* "%s | %d/%d"; the one filetype of HLDB is a single character
RStatusText(e) ==
  (IF e.syntax = NoSyntax THEN NoFtText ELSE <<HLDB[e.syntax].filetype>>)
  \o <<" ", "|", " ">> \o Dec(e.cy + 1) \o <<"/">> \o Dec(e.numrows)

\* the while loop of editorDrawStatusBar: pad until rstatus fits exactly
RECURSIVE StatusPad(_, _, _, _, _)
StatusPad(text, len, rstatus, rlen, screencols) ==
  IF len >= screencols THEN text
  ELSE IF screencols - len = rlen THEN text \o SubSeq(rstatus, 1, rlen)
  ELSE StatusPad(Append(text, " "), len + 1, rstatus, rlen, screencols)

\* editorDrawStatusBar without the cut of len to screencols
editorDrawStatusBar_NoClip(e) ==
  LET status == Snprintf(MSG_SIZE, StatusText(e))
      rstatus == Snprintf(MSG_SIZE, RStatusText(e))
      len == Len(StatusText(e))
      rlen == Len(RStatusText(e))
  IN  StatusPad(SubSeq(status, 1, len), len, rstatus, rlen, e.screencols)

\* the text editorDrawStatusBar puts between the colour escapes
editorDrawStatusBar(e) ==
  LET status == Snprintf(MSG_SIZE, StatusText(e))
      rstatus == Snprintf(MSG_SIZE, RStatusText(e))
      len == Min(Len(StatusText(e)), e.screencols)
      rlen == Len(RStatusText(e))
  IN  StatusPad(SubSeq(status, 1, len), len, rstatus, rlen, e.screencols)

\* the text editorDrawMessageBar shows; fresh: the message is under 5 s old
editorDrawMessageBar(e, fresh) ==
  LET msglen == Min(Len(e.statusmsg), e.screencols)
  IN  IF msglen # 0 /\ fresh THEN SubSeq(e.statusmsg, 1, msglen) ELSE <<>>

(***************************************************************************)
(* Saving                                                                  *)
(***************************************************************************)
\* What open / ftruncate / write leave on storage.  "ok": all of buf written;
\* "open": open fails; "truncate": ftruncate fails; "short": the file has been
\* cut or zero-extended to len and only the first k bytes of buf were written.
WriteFile(old, buf, outcome, k) ==
  CASE outcome = "ok" -> buf
    [] outcome = "short" ->
         [i \in 1..Len(buf) |-> IF i <= k THEN buf[i]
                                ELSE IF i <= Len(old) THEN old[i] ELSE NUL]
    [] OTHER -> old

WriteOutcomes == {"ok", "open", "truncate", "short"}

\* the byte counts a failed write is taken to have written
ShortWrites(e) == {k \in {0, RowsToStringLen(e) - 1} : k >= 0}

\* a save that marks the buffer clean whatever the outcome
SaveToDisk_AlwaysClean(e, old, outcome, k) ==
  [e |-> editorSetStatusMessage(
            [e EXCEPT !.dirty = 0, !.zero_alloc = @ \/ RowsToStringLen(e) = 0],
            IF outcome = "ok" THEN BytesWrittenMsg(RowsToStringLen(e))
            ELSE CantSaveMsg(outcome)),
   disk |-> WriteFile(old, editorRowsToString(e), outcome, k)]

\* the part of editorSave after the file name is known; editorRowsToString
\* asks xmalloc for totlen bytes
SaveToDisk(e, old, outcome, k) ==
  [e |-> LET e1 == [e EXCEPT !.zero_alloc = @ \/ RowsToStringLen(e) = 0]
         IN  IF outcome = "ok"
             THEN editorSetStatusMessage([e1 EXCEPT !.dirty = 0],
                                         BytesWrittenMsg(RowsToStringLen(e)))
             ELSE editorSetStatusMessage(e1, CantSaveMsg(outcome)),
   disk |-> WriteFile(old, editorRowsToString(e), outcome, k)]

(***************************************************************************)
(* Decoding keys from terminal bytes (editorReadKey)                       *)
(***************************************************************************)
\* a read() that returned no byte within the timeout
TIMEOUT == "TIMEOUT"

\* the first loop of editorReadKey: reads until a byte arrives
RECURSIVE SkipGaps(_)
SkipGaps(stream) ==
  IF stream # <<>> /\ Head(stream) = TIMEOUT THEN SkipGaps(Tail(stream)) ELSE stream

\* one read(STDIN_FILENO, &c, 1) with the terminal's timeout
ReadByte(stream) ==
  IF stream = <<>> THEN [ok |-> FALSE, c |-> NUL, rest |-> <<>>]
  ELSE IF Head(stream) = TIMEOUT THEN [ok |-> FALSE, c |-> NUL, rest |-> Tail(stream)]
  ELSE [ok |-> TRUE, c |-> Head(stream), rest |-> Tail(stream)]

\* switch (seq[1]) after ESC [ digit ~
TildeKey(d) ==
  CASE d = "1" -> KEY_HOME
    [] d = "3" -> KEY_DEL
    [] d = "4" -> KEY_END
    [] d = "5" -> KEY_PAGE_UP
    [] d = "6" -> KEY_PAGE_DOWN
    [] d = "7" -> KEY_HOME
    [] d = "8" -> KEY_END
    [] OTHER -> ESC

\* the switch after ESC [ with the keys of C and D exchanged
BracketKey_Swapped(c) ==
  CASE c = "A" -> KEY_ARROW_UP
    [] c = "B" -> KEY_ARROW_DOWN
    [] c = "C" -> KEY_ARROW_LEFT
    [] c = "D" -> KEY_ARROW_RIGHT
    [] c = "H" -> KEY_HOME
    [] c = "F" -> KEY_END
    [] OTHER -> ESC

\* switch (seq[1]) after ESC [
BracketKey(c) ==
  CASE c = "A" -> KEY_ARROW_UP
    [] c = "B" -> KEY_ARROW_DOWN
    [] c = "C" -> KEY_ARROW_RIGHT
    [] c = "D" -> KEY_ARROW_LEFT
    [] c = "H" -> KEY_HOME
    [] c = "F" -> KEY_END
    [] OTHER -> ESC

\* switch (seq[1]) after ESC O
OKey(c) ==
  CASE c = "H" -> KEY_HOME
    [] c = "F" -> KEY_END
    [] OTHER -> ESC

\* editorReadKey that takes ESC [ digit and any third byte as ESC [ digit ~
editorReadKey_NoTilde(stream) ==
  LET s0 == SkipGaps(stream)
      c == Head(s0)
      r0 == ReadByte(Tail(s0))
      r1 == ReadByte(r0.rest)
      r2 == ReadByte(r1.rest)
  IN  IF c # ESC THEN [key |-> c, reads |-> 0, rest |-> Tail(s0)]
      ELSE IF ~r0.ok THEN [key |-> ESC, reads |-> 1, rest |-> r0.rest]
      ELSE IF ~r1.ok THEN [key |-> ESC, reads |-> 2, rest |-> r1.rest]
      ELSE IF r0.c = "[" /\ r1.c \in Digits
           THEN IF ~r2.ok THEN [key |-> ESC, reads |-> 3, rest |-> r2.rest]
                ELSE [key |-> TildeKey(r1.c), reads |-> 3, rest |-> r2.rest]
      ELSE IF r0.c = "[" THEN [key |-> BracketKey(r1.c), reads |-> 2, rest |-> r1.rest]
      ELSE IF r0.c = "O" THEN [key |-> OKey(r1.c), reads |-> 2, rest |-> r1.rest]
      ELSE [key |-> ESC, reads |-> 2, rest |-> r1.rest]

\* editorReadKey on a stream that holds at least one byte: the key returned,
\* the number of reads made after the first byte, and what is left unread
editorReadKey(stream) ==
  LET s0 == SkipGaps(stream)
      c == Head(s0)
      r0 == ReadByte(Tail(s0))
      r1 == ReadByte(r0.rest)
      r2 == ReadByte(r1.rest)
  IN  IF c # ESC THEN [key |-> c, reads |-> 0, rest |-> Tail(s0)]
      ELSE IF ~r0.ok THEN [key |-> ESC, reads |-> 1, rest |-> r0.rest]
      ELSE IF ~r1.ok THEN [key |-> ESC, reads |-> 2, rest |-> r1.rest]
      ELSE IF r0.c = "[" /\ r1.c \in Digits
           THEN IF ~r2.ok THEN [key |-> ESC, reads |-> 3, rest |-> r2.rest]
                ELSE IF r2.c = "~"
                     THEN [key |-> TildeKey(r1.c), reads |-> 3, rest |-> r2.rest]
                     ELSE [key |-> ESC, reads |-> 3, rest |-> r2.rest]
      ELSE IF r0.c = "[" THEN [key |-> BracketKey(r1.c), reads |-> 2, rest |-> r1.rest]
      ELSE IF r0.c = "O" THEN [key |-> OKey(r1.c), reads |-> 2, rest |-> r1.rest]
      ELSE [key |-> ESC, reads |-> 2, rest |-> r1.rest]

(***************************************************************************)
(* State                                                                   *)
(***************************************************************************)
VARIABLES
  E,           \* the editor state (struct Editor)
  quit_times,  \* static of editorProcessKeypress
  find,        \* statics of editorFindCallback
  pc,          \* where the program waits for a key: "edit" (main loop),
               \* "find" / "saveas" (editorPrompt), "exit", or "dead" (die)
  buf,         \* the prompt's input buffer
  saved,       \* editorFind's saved cursor and offsets
  disk,        \* content of the file on storage
  scanned,     \* rows visited by the last search step
  nquit,       \* quit requests received in a row, up to now
  nquit_prev,  \* length of the last run of quit requests another key ended
  keyin,       \* terminal input: bytes not yet read, and the last decoded key
  budget       \* number of keys the run may still process

vars == <<E, quit_times, find, pc, buf, saved, disk, scanned, nquit,
          nquit_prev, keyin, budget>>

\* a key other than Ctrl-Q ends the run of quit requests
EndRun ==
  /\ nquit' = 0
  /\ nquit_prev' = IF nquit > 0 THEN nquit ELSE nquit_prev

\* initEditor, for a terminal with the given text rows and columns
initEditor(screenrows, screencols) ==
  [cx |-> 0, cy |-> 0, rx |-> 0, rowoff |-> 0, coloff |-> 0,
   screenrows |-> screenrows, screencols |-> screencols,
   numrows |-> 0, row |-> <<>>, dirty |-> 0, filename |-> NoName,
   statusmsg |-> <<>>, syntax |-> NoSyntax, zero_alloc |-> FALSE]

\* held counts the snapshots allocated and not yet freed
FindInit == [last_match |-> -1, direction |-> 1, saved_hl_line |-> -1,
             saved_hl |-> NULL_HL, held |-> 0]

SavedInit == [cx |-> 0, cy |-> 0, coloff |-> 0, rowoff |-> 0]

\* main() up to the first wait for a key: with a file argument (hasfile) or
\* without one; keys bounds the number of keys of the run.  A file with an
\* empty line makes editorUpdateSyntax ask for zero bytes while loading.
\* stream holds the bytes the terminal will deliver.
StartOn(screen, hasfile, filename, file, keys, stream) ==
  LET e0 == initEditor(screen[1], screen[2])
  IN  /\ \E e1 \in {IF hasfile THEN editorOpen(e0, filename, file) ELSE e0} :
            \/ /\ E = editorRefreshScreen(editorSetStatusMessage(e1, HelpMsg))
               /\ pc = "edit"
            \/ /\ e1.zero_alloc
               /\ E = e0
               /\ pc = "dead"
      /\ quit_times = QUIT_TIMES
      /\ find = FindInit
      /\ buf = <<>>
      /\ saved = SavedInit
      /\ disk = IF hasfile THEN file ELSE <<>>
      /\ scanned = <<>>
      /\ nquit = 0
      /\ nquit_prev = 0
      /\ keyin = [stream |-> stream, used |-> <<>>, key |-> NUL, reads |-> 0]
      /\ budget = keys

Start(screen, hasfile, filename, file, keys) ==
  StartOn(screen, hasfile, filename, file, keys, <<>>)

(***************************************************************************)
(* Keys in the main loop (editorProcessKeypress, then editorRefreshScreen) *)
(***************************************************************************)
CanKey == pc = "edit" /\ budget > 0

\* die("malloc") or die("realloc"): xmalloc or xrealloc was handed NULL for a
\* request of zero bytes, and the program has exited with status 1
Died ==
  /\ pc' = "dead"
  /\ budget' = budget - 1
  /\ EndRun
  /\ scanned' = <<>>
  /\ UNCHANGED <<E, quit_times, find, buf, saved, disk, keyin>>

\* the end of a key that leaves the quit counter as it is
Done_NoReset(e) ==
  \E e1 \in {e} :
     \/ /\ E' = editorRefreshScreen(e1)
        /\ pc' = pc
        /\ UNCHANGED quit_times
        /\ budget' = budget - 1
        /\ EndRun
        /\ scanned' = <<>>
     \/ e1.zero_alloc /\ Died

\* the common end of a key: it returns to the main loop, or a request for
\* zero bytes made on the way was answered with NULL
Done(e) ==
  \E e1 \in {e} :
     \/ /\ E' = editorRefreshScreen(e1)
        /\ pc' = pc
        /\ quit_times' = QUIT_TIMES
        /\ budget' = budget - 1
        /\ EndRun
        /\ scanned' = <<>>
     \/ e1.zero_alloc /\ Died

KeyEnter ==
  /\ CanKey
  /\ Done(editorInsertNewline(E))
  /\ UNCHANGED <<find, buf, saved, disk, keyin>>

\* Ctrl-Q that exits at once, unsaved changes or not
KeyQuit_NoConfirm ==
  /\ CanKey
  /\ budget' = budget - 1
  /\ nquit' = nquit + 1
  /\ scanned' = <<>>
  /\ pc' = "exit"
  /\ UNCHANGED <<E, quit_times, find, buf, saved, disk, nquit_prev, keyin>>

KeyQuit ==
  /\ CanKey
  /\ budget' = budget - 1
  /\ nquit' = nquit + 1
  /\ scanned' = <<>>
  /\ IF E.dirty # 0 /\ quit_times > 0
     THEN /\ quit_times' = quit_times - 1
          /\ E' = editorRefreshScreen(
                     editorSetStatusMessage(E, QuitWarning(quit_times)))
          /\ pc' = pc
     ELSE /\ pc' = "exit"
          /\ UNCHANGED <<E, quit_times>>
  /\ UNCHANGED <<find, buf, saved, disk, nquit_prev, keyin>>

KeySave ==
  /\ CanKey
  /\ IF E.filename = NoName
     THEN /\ pc' = "saveas"
          /\ buf' = <<>>
          /\ E' = editorRefreshScreen(editorSetStatusMessage(E, SaveAsPrompt(<<>>)))
          /\ budget' = budget - 1
          /\ EndRun
          /\ scanned' = <<>>
          /\ UNCHANGED <<quit_times, disk>>
     ELSE \E outcome \in WriteOutcomes, k \in ShortWrites(E) :
            LET r == SaveToDisk(E, disk, outcome, k)
            IN  /\ Done(r.e)
                /\ disk' = IF pc' = "dead" THEN disk ELSE r.disk
                /\ UNCHANGED buf
  /\ UNCHANGED <<find, saved, keyin>>

KeyFind ==
  /\ CanKey
  /\ saved' = [cx |-> E.cx, cy |-> E.cy, coloff |-> E.coloff, rowoff |-> E.rowoff]
  /\ pc' = "find"
  /\ buf' = <<>>
  /\ E' = editorRefreshScreen(editorSetStatusMessage(E, SearchPrompt(<<>>)))
  /\ budget' = budget - 1
  /\ EndRun
  /\ scanned' = <<>>
  /\ UNCHANGED <<quit_times, find, disk, keyin>>

KeyHome ==
  /\ CanKey
  /\ Done([E EXCEPT !.cx = 0])
  /\ UNCHANGED <<find, buf, saved, disk, keyin>>

KeyEnd ==
  /\ CanKey
  /\ Done(IF E.cy < E.numrows THEN [E EXCEPT !.cx = E.row[E.cy + 1].size] ELSE E)
  /\ UNCHANGED <<find, buf, saved, disk, keyin>>

\* KEY_BACKSPACE, CTRL_KEY('h') and KEY_DEL
KeyDelete(c) ==
  /\ CanKey
  /\ Done(editorDelChar(IF c = KEY_DEL THEN editorMoveCursor(E, KEY_ARROW_RIGHT) ELSE E))
  /\ UNCHANGED <<find, buf, saved, disk, keyin>>

KeyPage(c) ==
  /\ CanKey
  /\ LET cy1 == E.rowoff + E.screenrows - 1
         e1 == IF c = KEY_PAGE_UP THEN [E EXCEPT !.cy = E.rowoff]
               ELSE [E EXCEPT !.cy = IF cy1 > E.numrows THEN E.numrows ELSE cy1]
     IN  Done(MoveTimes(e1, IF c = KEY_PAGE_UP THEN KEY_ARROW_UP ELSE KEY_ARROW_DOWN,
                        E.screenrows))
  /\ UNCHANGED <<find, buf, saved, disk, keyin>>

KeyArrow(c) ==
  /\ CanKey
  /\ Done(editorMoveCursor(E, c))
  /\ UNCHANGED <<find, buf, saved, disk, keyin>>

\* CTRL_KEY('l'), a bare escape, and control characters of the default case
KeyIgnored(c) ==
  /\ CanKey
  /\ Done(E)
  /\ UNCHANGED <<find, buf, saved, disk, keyin>>

\* the default case: a printable character
KeyChar(c) ==
  /\ CanKey
  /\ IsPrintable(c)
  /\ Done(editorInsertChar(E, c))
  /\ UNCHANGED <<find, buf, saved, disk, keyin>>

(***************************************************************************)
(* Keys in editorPrompt                                                    *)
(***************************************************************************)
CanPrompt(mode) == pc = mode /\ budget > 0

ErasingKeys == {KEY_DEL, CTRL_H, KEY_BACKSPACE}

\* the prompt buffer after key c
PromptBuf(b, c) ==
  IF c \in ErasingKeys THEN (IF Len(b) > 0 THEN SubSeq(b, 1, Len(b) - 1) ELSE b)
  ELSE IF c # ESC /\ c # ENTER /\ IsPrintable(c) THEN Append(b, c)
  ELSE b

\* the search prompt whose cancel leaves the cursor where the search put it
FindKey_NoRestore(c) ==
  /\ CanPrompt("find")
  /\ LET b == PromptBuf(buf, c)
         ending == c = ESC \/ (c = ENTER /\ Len(buf) # 0)
         r == editorFindCallback(
                editorSetStatusMessage(E, IF ending THEN <<>> ELSE SearchPrompt(b)),
                find, b, c)
         cancelled == c = ESC
         confirmed == c = ENTER /\ Len(buf) # 0
         e1 == r.e
     IN  \/ /\ E' = editorRefreshScreen(e1)
            /\ find' = r.f
            /\ scanned' = r.visited
            /\ IF cancelled \/ confirmed
               THEN /\ pc' = "edit"
                    /\ buf' = <<>>
                    /\ saved' = SavedInit
                    /\ quit_times' = QUIT_TIMES
               ELSE /\ buf' = b
                    /\ UNCHANGED <<pc, saved, quit_times>>
         \/ r.e.zero_alloc /\ Died
  /\ budget' = budget - 1
  /\ EndRun
  /\ UNCHANGED <<disk, keyin>>

\* a key in the search prompt (editorFind -> editorPrompt -> editorFindCallback)
FindKey(c) ==
  /\ CanPrompt("find")
  /\ LET b == PromptBuf(buf, c)
         ending == c = ESC \/ (c = ENTER /\ Len(buf) # 0)
         r == editorFindCallback(
                editorSetStatusMessage(E, IF ending THEN <<>> ELSE SearchPrompt(b)),
                find, b, c)
         cancelled == c = ESC
         confirmed == c = ENTER /\ Len(buf) # 0
         e1 == IF cancelled
               THEN [r.e EXCEPT !.cx = saved.cx, !.cy = saved.cy,
                                !.coloff = saved.coloff, !.rowoff = saved.rowoff]
               ELSE r.e
     IN  \/ /\ E' = editorRefreshScreen(e1)
            /\ find' = r.f
            /\ scanned' = r.visited
            /\ IF cancelled \/ confirmed
               THEN /\ pc' = "edit"
                    /\ buf' = <<>>
                    /\ saved' = SavedInit
                    /\ quit_times' = QUIT_TIMES
               ELSE /\ buf' = b
                    /\ UNCHANGED <<pc, saved, quit_times>>
         \/ r.e.zero_alloc /\ Died
  /\ budget' = budget - 1
  /\ EndRun
  /\ UNCHANGED <<disk, keyin>>

\* a key in the "Save as" prompt (editorSave -> editorPrompt, no callback)
SaveAsKey(c) ==
  /\ CanPrompt("saveas")
  /\ budget' = budget - 1
  /\ EndRun
  /\ scanned' = <<>>
  /\ IF c = ESC
     THEN /\ pc' = "edit"
          /\ buf' = <<>>
          /\ E' = editorRefreshScreen(editorSetStatusMessage(E, SaveAbortedMsg))
          /\ quit_times' = QUIT_TIMES
          /\ UNCHANGED disk
     ELSE IF c = ENTER /\ Len(buf) # 0
     THEN \E outcome \in WriteOutcomes, k \in ShortWrites(E) :
            LET e1 == editorSelectSyntax([E EXCEPT !.filename = buf])
                r == SaveToDisk(e1, disk, outcome, k)
            IN  \/ /\ pc' = "edit"
                   /\ buf' = <<>>
                   /\ E' = editorRefreshScreen(r.e)
                   /\ disk' = r.disk
                   /\ quit_times' = QUIT_TIMES
                \/ r.e.zero_alloc /\ Died
     ELSE /\ buf' = PromptBuf(buf, c)
          /\ E' = editorRefreshScreen(
                     editorSetStatusMessage(E, SaveAsPrompt(PromptBuf(buf, c))))
          /\ UNCHANGED <<pc, quit_times, disk>>
  /\ UNCHANGED <<find, saved, keyin>>

\* editorReadKey returns the next key from the terminal's bytes
ReadKey ==
  /\ pc = "edit"
  /\ SkipGaps(keyin.stream) # <<>>
  /\ LET s0 == SkipGaps(keyin.stream)
         r == editorReadKey(keyin.stream)
     IN  keyin' = [stream |-> r.rest,
                   used |-> SubSeq(s0, 1, Len(s0) - Len(r.rest)),
                   key |-> r.key, reads |-> r.reads]
  /\ UNCHANGED <<E, quit_times, find, pc, buf, saved, disk, scanned, nquit,
                 nquit_prev, budget>>

\* the program is run again on the file it has left on storage
Relaunch ==
  /\ pc = "exit" /\ budget > 0
  /\ E.filename # NoName
  /\ \E e1 \in {editorOpen(initEditor(E.screenrows, E.screencols), E.filename, disk)} :
         \/ /\ E' = editorRefreshScreen(editorSetStatusMessage(e1, HelpMsg))
            /\ pc' = "edit"
         \/ /\ e1.zero_alloc
            /\ E' = initEditor(E.screenrows, E.screencols)
            /\ pc' = "dead"
  /\ quit_times' = QUIT_TIMES
  /\ find' = FindInit
  /\ buf' = <<>>
  /\ saved' = SavedInit
  /\ scanned' = <<>>
  /\ nquit' = 0 /\ nquit_prev' = 0
  /\ budget' = budget - 1
  /\ UNCHANGED <<disk, keyin>>

(***************************************************************************)
(* The editor: files it is started on and keys it is given                 *)
(***************************************************************************)
\* the lines of a text file, each followed by a newline
RECURSIVE FileOf(_)
FileOf(lines) ==
  IF lines = <<>> THEN <<>> ELSE Head(lines) \o <<LF>> \o FileOf(Tail(lines))

NameC == <<"a", ".", "c">>
NameTxt == <<"t">>

BlockFile ==
  FileOf(<< <<"/","*"," ","s","t","a","r","t">>, <<"m","i","d","d","l","e">>,
            <<"e","n","d"," ","*","/">>, <<"a","f","t","e","r">> >>)

\* a comment opener inside a string literal, then a plain row
StringFile == FileOf(<< <<QUOTE, "/", "*">>, <<"a">> >>)

\* a line comment, a row that opens a block comment, a row inside it
OpenerFile == FileOf(<< <<"/", "/">>, <<"/", "*">>, <<"a">> >>)

\* a row with a tab, in a file without a syntax profile
TabFile == FileOf(<< <<TAB, "a">>, <<"a", "/", "*">> >>)

Screens == {<<2, 4>>}

Programs ==
  {[hasfile |-> FALSE, filename |-> NoName, file |-> <<>>],
   [hasfile |-> TRUE, filename |-> NameC, file |-> StringFile],
   [hasfile |-> TRUE, filename |-> NameC, file |-> OpenerFile],
   [hasfile |-> TRUE, filename |-> NameTxt, file |-> TabFile]}

InsertChars == {"*", "/"}
QueryChars == {"a", "/"}
NameChars == {".", "c"}

ArrowKeys == {KEY_ARROW_LEFT, KEY_ARROW_RIGHT, KEY_ARROW_UP, KEY_ARROW_DOWN}
PageKeys == {KEY_PAGE_UP, KEY_PAGE_DOWN}
IgnoredKeys == {CTRL_L, ESC, TAB}
FindKeys == QueryChars \cup ArrowKeys \cup {KEY_BACKSPACE, ESC, ENTER, KEY_HOME}
SaveAsKeys == NameChars \cup {KEY_BACKSPACE, ESC, ENTER, KEY_ARROW_LEFT}

\* bound on the number of keys processed in one run of Spec
MaxKeys == 4

Init ==
  \E s \in Screens, p \in Programs :
     Start(s, p.hasfile, p.filename, p.file, MaxKeys)

Next ==
  \/ KeyEnter
  \/ KeyQuit
  \/ KeySave
  \/ KeyFind
  \/ KeyHome
  \/ KeyEnd
  \/ \E c \in ErasingKeys : KeyDelete(c)
  \/ \E c \in PageKeys : KeyPage(c)
  \/ \E c \in ArrowKeys : KeyArrow(c)
  \/ \E c \in IgnoredKeys : KeyIgnored(c)
  \/ \E c \in InsertChars : KeyChar(c)
  \/ \E c \in FindKeys : FindKey(c)
  \/ \E c \in SaveAsKeys : SaveAsKey(c)

Spec == Init /\ [][Next]_vars

(***************************************************************************)
(* Properties of the highlight state                                       *)
(***************************************************************************)
\* A highlight pass over the whole buffer from row 0, each row scanned with
\* the open-comment state its predecessor has just produced.
RECURSIVE ScratchFrom(_, _, _, _, _)
ScratchFrom(syn, rows, r, prev_open, acc) ==
  IF r >= Len(rows) THEN acc
  ELSE LET render == rows[r + 1].render
           res == SyntaxScan(syn, render, 0, [j \in 1..Len(render) |-> HL_NORMAL],
                             TRUE, NUL, prev_open)
       IN  ScratchFrom(syn, rows, r + 1, res.in_comment,
                       Append(acc, [hl |-> res.hl, open |-> res.in_comment]))

\* every row's classes and open-comment flag are those of a pass from scratch
HlConsistent(e) ==
  IF e.syntax = NoSyntax
  THEN \A i \in 1..Len(e.row) :
          /\ e.row[i].hl = [j \in 1..Len(e.row[i].render) |-> HL_NORMAL]
          /\ ~e.row[i].hl_open_comment
  ELSE LET s == ScratchFrom(HLDB[e.syntax], e.row, 0, FALSE, <<>>)
       IN  \A i \in 1..Len(e.row) :
              /\ e.row[i].hl = s[i].hl
              /\ e.row[i].hl_open_comment = s[i].open

\* C1: in every reachable state every row's highlight sequence is exactly as
\* long as its render sequence, whose length is rsize.
C1_HlLengthIsRsize ==
  /\ Len(E.row) = E.numrows
  /\ \A i \in 1..Len(E.row) :
        /\ Len(E.row[i].hl) = E.row[i].rsize
        /\ Len(E.row[i].render) = E.row[i].rsize

\* an edited buffer with an expanded tab, in a search that has painted a match
C1_Witness ==
  /\ pc = "find"
  /\ E.dirty > 0
  /\ find.saved_hl # NULL_HL
  /\ \E i \in 1..Len(E.row) : E.row[i].rsize > E.row[i].size
  /\ \E i \in 1..Len(E.row) : \E j \in 1..Len(E.row[i].hl) : E.row[i].hl[j] = HL_MATCH

\* a step of the main loop that handles Enter
NewlineStep ==
  /\ pc = "edit" /\ pc' = "edit" /\ budget > 0
  /\ E' = editorRefreshScreen(editorInsertNewline(E))

\* C2: a newline split of a consistently highlighted buffer leaves every row's
\* classes and open-comment flag equal to those of a pass from scratch.
C2_NewlineKeepsHighlight ==
  [][(NewlineStep /\ HlConsistent(E)) => HlConsistent(E')]_vars

\* a step of the main loop that joins row cy with its predecessor
JoinStep ==
  /\ pc = "edit" /\ pc' = "edit" /\ budget > 0
  /\ E.cx = 0 /\ E.cy > 0 /\ E.cy < E.numrows
  /\ E' = editorRefreshScreen(editorDelChar(E))

\* C3: joining a row with its predecessor in a consistently highlighted buffer
\* leaves every remaining row's classes and open-comment flag equal to those
\* of a pass from scratch.
C3_JoinKeepsHighlight ==
  [][(JoinStep /\ HlConsistent(E)) => HlConsistent(E')]_vars

(***************************************************************************)
(* The block-comment example: typing into a four-row C file                *)
(***************************************************************************)
MaxBlockKeys == 4

InitBlock == \E s \in Screens : Start(s, TRUE, NameC, BlockFile, MaxBlockKeys)

NextBlock ==
  \/ \E c \in ArrowKeys : KeyArrow(c)
  \/ \E c \in InsertChars : KeyChar(c)
  \/ KeyHome
  \/ KeyEnd

SpecBlock == InitBlock /\ [][NextBlock]_vars

AllHl(row, class) == \A j \in 1..Len(row.hl) : row.hl[j] = class

Start_ == <<"/", "*", " ", "s", "t", "a", "r", "t">>
Middle == <<"m", "i", "d", "d", "l", "e">>
End_ == <<"e", "n", "d", " ", "*", "/">>
After == <<"a", "f", "t", "e", "r">>

\* "middle" with the close marker inserted at column p
MiddleClosedAt(p) == SubSeq(Middle, 1, p) \o <<"*", "/">> \o SubSeq(Middle, p + 1, 6)

\* rows 0, 2 and 3 are those of the file and row 1 is as given
BlockBufferWith(row1) ==
  /\ E.numrows = 4
  /\ E.row[1].chars = Start_ /\ E.row[2].chars = row1
  /\ E.row[3].chars = End_ /\ E.row[4].chars = After

\* C4: in the buffer as loaded rows 0-2 are block comment throughout and row 3
\* is normal; once "*/" stands inside row 1, row 1 is comment up to and
\* including the marker only and rows 2 and 3 carry no comment class.
C4_BlockCommentExample ==
  /\ BlockBufferWith(Middle) =>
        /\ AllHl(E.row[1], HL_MLCOMMENT) /\ AllHl(E.row[2], HL_MLCOMMENT)
        /\ AllHl(E.row[3], HL_MLCOMMENT) /\ AllHl(E.row[4], HL_NORMAL)
        /\ E.row[1].hl_open_comment /\ E.row[2].hl_open_comment
        /\ ~E.row[3].hl_open_comment /\ ~E.row[4].hl_open_comment
  /\ \A p \in 0..6 :
        BlockBufferWith(MiddleClosedAt(p)) =>
           /\ E.row[2].hl = [j \in 1..8 |-> IF j <= p + 2 THEN HL_MLCOMMENT
                                            ELSE HL_NORMAL]
           /\ ~E.row[2].hl_open_comment
           /\ AllHl(E.row[3], HL_NORMAL) /\ ~E.row[3].hl_open_comment
           /\ AllHl(E.row[4], HL_NORMAL)

\* the close marker has just been completed in the middle of row 1
C4_Witness ==
  /\ BlockBufferWith(MiddleClosedAt(1))
  /\ E.cy = 1 /\ E.cx = 3 /\ E.dirty = 2
  /\ AllHl(E.row[3], HL_NORMAL)

(***************************************************************************)
(* Keywords: typing one row of a C file                                    *)
(***************************************************************************)
MaxKwKeys == 5

KwChars == {"i", "f", "d", "e", "(", QUOTE}

InitKw == \E s \in Screens : Start(s, TRUE, NameC, <<>>, MaxKwKeys)

NextKw == \E c \in KwChars : KeyChar(c)

SpecKw == InitKw /\ [][NextKw]_vars

IsKwClass(h) == h = HL_KEYWORD1 \/ h = HL_KEYWORD2

\* the maximal runs <<s, e>> (1-based, inclusive) of keyword classes in hl
KwRuns(hl) ==
  {se \in (1..Len(hl)) \X (1..Len(hl)) :
     /\ se[1] <= se[2]
     /\ \A j \in se[1]..se[2] : IsKwClass(hl[j])
     /\ (se[1] = 1 \/ ~IsKwClass(hl[se[1] - 1]))
     /\ (se[2] = Len(hl) \/ ~IsKwClass(hl[se[2] + 1]))}

\* the run is one keyword of the table, in its class, followed by a separator
RunIsKeyword(row, se) ==
  /\ \E k \in 1..Len(C_KW) :
        /\ SubSeq(C_KW[k], 1, KwLen(C_KW[k])) = SubSeq(row.render, se[1], se[2])
        /\ \A j \in se[1]..se[2] :
              row.hl[j] = IF KwIsKw2(C_KW[k]) THEN HL_KEYWORD2 ELSE HL_KEYWORD1
  /\ isSeparator(At(row.render, se[2]))

Ifdef == <<"i", "f", "d", "e", "f">>
IfParen == <<"i", "f", "(">>

\* no character of an "ifdef" is keyword; the "if" of a row starting "if(" is
KwExamples(row) ==
  /\ \A i \in 0..Len(row.render) :
        StartsWith(row.render, i, Ifdef) =>
           \A j \in (i + 1)..(i + 5) : ~IsKwClass(row.hl[j])
  /\ (row.idx = 0 /\ StartsWith(row.render, 0, IfParen)) =>
        SubSeq(row.hl, 1, 3) = <<HL_KEYWORD1, HL_KEYWORD1, HL_NORMAL>>

\* C5 as stated: every keyword run is a keyword of the table that starts at
\* the start of the line or right after a separator and is followed by a
\* separator; "ifdef" is never keyword and the "if" of "if(" is keyword-1.
C5_KeywordAfterSeparatorOnly ==
  \A i \in 1..Len(E.row) :
     /\ KwExamples(E.row[i])
     /\ \A se \in KwRuns(E.row[i].hl) :
           /\ RunIsKeyword(E.row[i], se)
           /\ (se[1] = 1 \/ isSeparator(E.row[i].render[se[1] - 1]))

\* C5 amended: a keyword run may also start right after the closing quote of
\* a string literal.
C5_KeywordBoundary ==
  \A i \in 1..Len(E.row) :
     /\ KwExamples(E.row[i])
     /\ \A se \in KwRuns(E.row[i].hl) :
           /\ RunIsKeyword(E.row[i], se)
           /\ \/ se[1] = 1
              \/ isSeparator(E.row[i].render[se[1] - 1])
              \/ /\ E.row[i].hl[se[1] - 1] = HL_STRING
                 /\ E.row[i].render[se[1] - 1] \in {QUOTE, APOS}

\* an "if" right after the closing quote of a string, followed by "("
C5_Witness ==
  /\ E.numrows = 1
  /\ E.row[1].render = <<QUOTE, QUOTE, "i", "f", "(">>
  /\ E.row[1].hl = <<HL_STRING, HL_STRING, HL_KEYWORD1, HL_KEYWORD1, HL_NORMAL>>

(***************************************************************************)
(* Column mapping: the cursor on one row of tabs and letters               *)
(***************************************************************************)
MaxColLen == 9
MaxColKeys == 2

ColChars == {TAB, "a"}

\* the rows of at most n characters over S
RowsOver(S, n) == UNION {[1..k -> S] : k \in 0..n}

InitCol ==
  \E s \in Screens, line \in RowsOver(ColChars, MaxColLen) :
     Start(s, TRUE, NameTxt, line \o <<LF>>, MaxColKeys)

NextCol ==
  \/ \E c \in ArrowKeys : KeyArrow(c)
  \/ KeyHome
  \/ KeyEnd

SpecCol == InitCol /\ [][NextCol]_vars

\* C6: for every row and every character column c in [0, size],
\* rowRxToCx(row, rowCxToRx(row, c)) = c.
C6_ColumnRoundTrip ==
  \A i \in 1..Len(E.row) :
     \A c \in 0..E.row[i].size :
        rowRxToCx(E.row[i], rowCxToRx(E.row[i], c)) = c

\* the cursor stands after a tab that was expanded, past the first tab stop
C6_Witness ==
  /\ E.cy < E.numrows
  /\ E.cx > 0 /\ E.cx < E.row[E.cy + 1].size
  /\ E.rx > TAB_STOP /\ E.rx > E.cx
  /\ E.row[E.cy + 1].chars[E.cx] = TAB
  /\ rowRxToCx(E.row[E.cy + 1], E.rx) = E.cx

\* C7: rowCxToRx(row, 0) = 0; a character other than a tab advances the render
\* column by one and a tab advances it to the next multiple of TAB_STOP, by at
\* least 1 and at most TAB_STOP.
C7_RenderColumnAdvance ==
  \A i \in 1..Len(E.row) :
     /\ rowCxToRx(E.row[i], 0) = 0
     /\ \A c \in 0..(E.row[i].size - 1) :
           LET a == rowCxToRx(E.row[i], c)
               b == rowCxToRx(E.row[i], c + 1)
           IN  /\ a <= b
               /\ IF E.row[i].chars[c + 1] = TAB
                  THEN /\ b % TAB_STOP = 0
                       /\ b - a >= 1 /\ b - a <= TAB_STOP
                  ELSE b = a + 1

\* a row where one tab advances by TAB_STOP columns and another by one
C7_Witness ==
  \E i \in 1..Len(E.row) :
     \E c1, c2 \in 0..(E.row[i].size - 1) :
        /\ E.row[i].chars[c1 + 1] = TAB /\ E.row[i].chars[c2 + 1] = TAB
        /\ rowCxToRx(E.row[i], c1 + 1) - rowCxToRx(E.row[i], c1) = TAB_STOP
        /\ rowCxToRx(E.row[i], c2 + 1) - rowCxToRx(E.row[i], c2) = 1

(***************************************************************************)
(* Load and save: a file of newlines, carriage returns and letters         *)
(***************************************************************************)
MaxFileLen == 4
MaxIOKeys == 3

IOChars == {LF, CR, "a"}

InitIO ==
  \E s \in Screens, file \in RowsOver(IOChars, MaxFileLen) :
     Start(s, TRUE, NameTxt, file, MaxIOKeys)

NextIO ==
  \/ KeySave
  \/ KeyQuit
  \/ Relaunch

SpecIO == InitIO /\ [][NextIO]_vars

RECURSIVE SizeSum(_, _)
SizeSum(rows, j) == IF j > Len(rows) THEN 0 ELSE rows[j].size + SizeSum(rows, j + 1)

RowChars(e) == [i \in 1..e.numrows |-> e.row[i].chars]

\* what the editor holds after being started on a file of the given content
Reloaded(e, content) ==
  editorOpen(initEditor(e.screenrows, e.screencols), e.filename, content)

\* C8: the loaded, unedited buffer flattens to its rows each followed by one
\* newline, of total length sum of sizes + number of rows, and loading that
\* back yields the same number of rows with the same characters in order.
C8_SaveReloadRoundTrip ==
  LET flat == editorRowsToString(E)
      back == Reloaded(E, flat)
  IN  /\ Len(flat) = RowsToStringLen(E)
      /\ Len(flat) = SizeSum(E.row, 1) + E.numrows
      /\ back.numrows = E.numrows
      /\ RowChars(back) = RowChars(E)
      /\ (E.dirty = 0 /\ disk = flat) => RowChars(Reloaded(E, disk)) = RowChars(E)

\* saved, left and started again: a buffer with an inner carriage return and
\* an empty row, read back from what the save wrote
C8_Witness ==
  /\ pc = "edit" /\ budget = MaxIOKeys - 3
  /\ E.dirty = 0
  /\ disk = editorRowsToString(E)
  /\ E.numrows = 2
  /\ E.row[1].chars = <<CR, "a">> /\ E.row[2].chars = <<>>

(***************************************************************************)
(* Search: three rows, the query typed into the prompt                     *)
(***************************************************************************)
MaxFindKeys == 5

Foo == <<"f", "o", "o">>
FindRows == {Foo, <<"o">>}
ScanKeys == {"f", "o", KEY_ARROW_RIGHT, KEY_ARROW_LEFT, ESC, ENTER}

InitFind ==
  \E s \in Screens, r0 \in FindRows, r1 \in FindRows, r2 \in FindRows :
     Start(s, TRUE, NameTxt, FileOf(<<r0, r1, r2>>), MaxFindKeys)

NextFind ==
  \/ KeyFind
  \/ \E c \in ScanKeys : FindKey(c)

SpecFind == InitFind /\ [][NextFind]_vars

\* row index i moved by one in direction d, wrapping at both ends
WrapStep(i, d, n) == (i + d + n) % n

RowHas(e, r, q) == StrStr(e.row[r + 1].render, q) # -1

NoRepeat(seq) == \A i, j \in 1..Len(seq) : i # j => seq[i] # seq[j]

\* the order and the outcome of one scan for q from last match lm in direction d
ScanAsClaimed(e, q, lm, d) ==
  LET s == FindScan(e, q, lm, d, 0, <<>>)
      n == e.numrows
  IN  /\ Len(s.visited) >= 1 /\ Len(s.visited) <= n
      /\ s.visited[1] = WrapStep(lm, d, n)
      /\ \A j \in 1..(Len(s.visited) - 1) :
            /\ s.visited[j + 1] = WrapStep(s.visited[j], d, n)
            /\ ~RowHas(e, s.visited[j], q)
      /\ NoRepeat(s.visited)
      /\ IF \E r \in 0..(n - 1) : RowHas(e, r, q)
         THEN s.hit = s.visited[Len(s.visited)] /\ RowHas(e, s.hit, q)
         ELSE s.hit = -1 /\ Len(s.visited) = n

\* C9: from every last match and in either direction the scan starts one past
\* the last match, wraps at both ends, visits no row twice and stops at the
\* first row containing the query, so it hits whenever some row contains it;
\* the step the prompt has just made did so; with "foo" on row 0 only, forward
\* from last match 2 and backward from last match 0 both find row 0.
C9_SearchScanOrder ==
  /\ \A lm \in -1..(E.numrows - 1), d \in {1, -1} :
        (lm # -1 \/ d = 1) => ScanAsClaimed(E, buf, lm, d)
  /\ scanned # <<>> =>
        /\ NoRepeat(scanned)
        /\ \A j \in 1..(Len(scanned) - 1) :
              /\ scanned[j + 1] = WrapStep(scanned[j], find.direction, E.numrows)
              /\ ~RowHas(E, scanned[j], buf)
        /\ (\E r \in 0..(E.numrows - 1) : RowHas(E, r, buf)) =>
              /\ find.last_match = scanned[Len(scanned)]
              /\ E.cy = find.last_match
              /\ RowHas(E, find.last_match, buf)
  /\ RowChars(E) = <<Foo, <<"o">>, <<"o">> >> =>
        /\ FindScan(E, Foo, 2, 1, 0, <<>>).hit = 0
        /\ FindScan(E, Foo, 0, -1, 0, <<>>).hit = 0

\* "foo" on row 0 only: the backward step from last match 0 has gone through
\* rows 2 and 1 and found row 0 again
C9_Witness ==
  /\ pc = "find"
  /\ RowChars(E) = <<Foo, <<"o">>, <<"o">> >>
  /\ buf = Foo
  /\ find.direction = -1 /\ find.last_match = 0
  /\ scanned = <<2, 1, 0>>

(***************************************************************************)
(* Quitting with unsaved changes                                           *)
(***************************************************************************)
MaxQuitKeys == 5

QuitPrograms ==
  {[hasfile |-> FALSE, filename |-> NoName, file |-> <<>>],
   [hasfile |-> TRUE, filename |-> NameC, file |-> StringFile]}

InitQuit ==
  \E s \in Screens, p \in QuitPrograms :
     Start(s, p.hasfile, p.filename, p.file, MaxQuitKeys)

NextQuit ==
  \/ KeyQuit
  \/ KeySave
  \/ \E c \in InsertChars : KeyChar(c)
  \/ \E c \in ArrowKeys : KeyArrow(c)
  \/ \E c \in IgnoredKeys : KeyIgnored(c)
  \/ \E c \in SaveAsKeys : SaveAsKey(c)

SpecQuit == InitQuit /\ [][NextQuit]_vars

\* C10 as stated: with unsaved changes the editor is still running after the
\* first and the second quit request in a row and has exited after the third.
C10_ExitsOnThirdQuit ==
  E.dirty # 0 =>
     /\ nquit \in {1, 2} => pc # "exit"
     /\ nquit = 3 => pc = "exit"

\* C10 amended: with unsaved changes the editor is still running after each of
\* the first QUIT_TIMES quit requests in a row and has exited after the next.
C10_ExitsAfterQuitTimesWarnings ==
  /\ E.dirty # 0 =>
        /\ nquit \in 1..QUIT_TIMES => pc # "exit" /\ quit_times = QUIT_TIMES - nquit
        /\ nquit = QUIT_TIMES + 1 => pc = "exit"
        /\ nquit <= QUIT_TIMES + 1
  /\ pc = "exit" => (E.dirty = 0 \/ nquit = QUIT_TIMES + 1)

\* a modified buffer left by the fourth quit request in a row
C10_Witness ==
  /\ pc = "exit"
  /\ E.dirty # 0
  /\ nquit = QUIT_TIMES + 1

(***************************************************************************)
(* Quit requests with other keys in between                                *)
(***************************************************************************)
MaxResetKeys == 5

ResetFindKeys == {"a", ESC, ENTER}

InitReset ==
  \E s \in Screens, p \in QuitPrograms :
     Start(s, p.hasfile, p.filename, p.file, MaxResetKeys)

NextReset ==
  \/ KeyQuit
  \/ KeySave
  \/ KeyFind
  \/ KeyChar("*")
  \/ KeyArrow(KEY_ARROW_RIGHT)
  \/ KeyIgnored(ESC)
  \/ \E c \in ResetFindKeys : FindKey(c)
  \/ \E c \in {ESC} : SaveAsKey(c)

SpecReset == InitReset /\ [][NextReset]_vars

\* C11: whenever a key other than the quit request has been processed and
\* the editor waits in its main loop again, the quit counter is QUIT_TIMES;
\* a quit request leaves the counter as it is or lowers it by one; so with
\* unsaved changes the editor exits only on a full run of quit requests.
C11_QuitCounterReset ==
  [][ /\ (pc' = "edit" /\ nquit' = 0) => quit_times' = QUIT_TIMES
      /\ nquit' = nquit + 1 =>
            /\ quit_times' \in {quit_times, quit_times - 1}
            /\ (E.dirty # 0 /\ pc' = "exit") => nquit' = QUIT_TIMES + 1
      /\ (pc' = "edit" /\ E'.dirty # 0 /\ nquit' > 0) =>
            quit_times' = QUIT_TIMES - nquit' ]_vars

\* a run of two quit requests was ended by another key, and the next quit
\* request counts from the start again
C11_Witness ==
  /\ pc = "edit"
  /\ E.dirty # 0
  /\ nquit_prev = 2
  /\ nquit = 1
  /\ quit_times = QUIT_TIMES - 1

(***************************************************************************)
(* The cursor under every key, on terminals of one and of two text rows    *)
(***************************************************************************)
MaxCursorKeys == 4

CursorScreens == {<<1, 1>>, <<2, 4>>}

CursorPrograms ==
  {[hasfile |-> TRUE, filename |-> NameC, file |-> OpenerFile],
   [hasfile |-> TRUE, filename |-> NameTxt, file |-> TabFile]}

CursorFindKeys == {"a", "/", KEY_ARROW_RIGHT, KEY_ARROW_LEFT, ESC, ENTER}

InitCursor ==
  \E s \in CursorScreens, p \in CursorPrograms :
     Start(s, p.hasfile, p.filename, p.file, MaxCursorKeys)

NextCursor ==
  \/ KeyEnter
  \/ KeyFind
  \/ KeyHome
  \/ KeyEnd
  \/ \E c \in {KEY_BACKSPACE, KEY_DEL} : KeyDelete(c)
  \/ \E c \in PageKeys : KeyPage(c)
  \/ \E c \in ArrowKeys : KeyArrow(c)
  \/ KeyChar("/")
  \/ \E c \in CursorFindKeys : FindKey(c)

SpecCursor == InitCursor /\ [][NextCursor]_vars

\* the cursor is on a row or on the line after the last row, and within it
CursorValid(e) ==
  /\ 0 <= e.cy /\ e.cy <= e.numrows
  /\ 0 <= e.cx
  /\ e.cx <= (IF e.cy < e.numrows THEN e.row[e.cy + 1].size ELSE 0)

\* C12: after every processed key, 0 <= cy <= numrows and 0 <= cx <= size of
\* row cy, with cx = 0 when cy = numrows.
C12_CursorInvariant ==
  E.screenrows >= 1 => (E.numrows = Len(E.row) /\ CursorValid(E))

\* End on the longer row, then Up: the cursor has been pulled back to the
\* end of the shorter row above
C12_Witness ==
  /\ pc = "edit"
  /\ E.numrows = 2 /\ E.dirty = 0
  /\ E.row[1].size = 2 /\ E.row[2].size = 3
  /\ E.cy = 0 /\ E.cx = 2
  /\ budget = MaxCursorKeys - 3

(***************************************************************************)
(* Key decoding: every short stream of terminal bytes                      *)
(***************************************************************************)
MaxBytes == 4

TermBytes == {ESC, "[", "O", "3", "2", "~", "A", "H", "x", TIMEOUT}

InitKeys ==
  \E s \in Screens, stream \in RowsOver(TermBytes, MaxBytes) :
     StartOn(s, FALSE, NoName, <<>>, 0, stream)

NextKeys == ReadKey

SpecKeys == InitKeys /\ [][NextKeys]_vars

\* the escape sequences that stand for a key, with the key
EscSequences ==
  {<< <<ESC, "[", "A">>, KEY_ARROW_UP >>,   << <<ESC, "[", "B">>, KEY_ARROW_DOWN >>,
   << <<ESC, "[", "C">>, KEY_ARROW_RIGHT >>, << <<ESC, "[", "D">>, KEY_ARROW_LEFT >>,
   << <<ESC, "[", "H">>, KEY_HOME >>,        << <<ESC, "[", "F">>, KEY_END >>,
   << <<ESC, "O", "H">>, KEY_HOME >>,        << <<ESC, "O", "F">>, KEY_END >>,
   << <<ESC, "[", "1", "~">>, KEY_HOME >>,   << <<ESC, "[", "3", "~">>, KEY_DEL >>,
   << <<ESC, "[", "4", "~">>, KEY_END >>,    << <<ESC, "[", "5", "~">>, KEY_PAGE_UP >>,
   << <<ESC, "[", "6", "~">>, KEY_PAGE_DOWN >>, << <<ESC, "[", "7", "~">>, KEY_HOME >>,
   << <<ESC, "[", "8", "~">>, KEY_END >>}

\* C13: a call that began with an escape byte made at most three further
\* reads and returned the key of the sequence it consumed when that is one of
\* the recognized sequences, and a bare escape otherwise (unknown letter,
\* digit without '~', unknown digit, unknown introducer, or a read that timed
\* out); a call that began with another byte returned that byte at once.
C13_EscapeDecoding ==
  keyin.used # <<>> =>
     IF keyin.used[1] = ESC
     THEN /\ keyin.reads \in 1..3
          /\ Len(keyin.used) <= 4
          /\ IF \E p \in EscSequences : p[1] = keyin.used
             THEN \E p \in EscSequences : p[1] = keyin.used /\ keyin.key = p[2]
             ELSE keyin.key = ESC
     ELSE keyin.key = keyin.used[1] /\ keyin.reads = 0

\* ESC [ 2 ~ read to its end and returned as a bare escape
C13_Witness ==
  /\ keyin.used = <<ESC, "[", "2", "~">>
  /\ keyin.key = ESC
  /\ keyin.reads = 3
  /\ keyin.stream = <<>>

(***************************************************************************)
(* Saving and the modified counter                                         *)
(***************************************************************************)
MaxSaveKeys == 5

SaveNameKeys == {"c", ESC, ENTER}

InitSave ==
  \E s \in Screens, p \in QuitPrograms :
     Start(s, p.hasfile, p.filename, p.file, MaxSaveKeys)

NextSave ==
  \/ KeySave
  \/ KeyChar("*")
  \/ \E c \in SaveNameKeys : SaveAsKey(c)

SpecSave == InitSave /\ [][NextSave]_vars

\* the step is a save whose open / ftruncate / write had the given outcome
SavedWith(outcome) ==
  /\ \/ KeySave /\ E.filename # NoName
     \/ SaveAsKey(ENTER) /\ pc' = "edit"
  /\ \E k \in ShortWrites(E) :
        LET e1 == IF pc = "saveas"
                  THEN editorSelectSyntax([E EXCEPT !.filename = buf])
                  ELSE E
            r == SaveToDisk(e1, disk, outcome, k)
        IN  E' = editorRefreshScreen(r.e) /\ disk' = r.disk

\* the step is Escape in the "Save as" prompt
SaveAborted == SaveAsKey(ESC)

\* C14: a successful save leaves the modified counter 0 and the whole buffer
\* on storage; a save that failed at open, at truncate or with a short write,
\* and an aborted save-as prompt, leave the modified counter as it was; in
\* all cases the rows' characters are unchanged.
C14_SaveOutcomeAndDirty ==
  [][ /\ \A outcome \in WriteOutcomes :
            SavedWith(outcome) =>
               /\ outcome = "ok" =>
                     (E'.dirty = 0 /\ disk' = editorRowsToString(E))
               /\ outcome # "ok" => E'.dirty = E.dirty
               /\ outcome \in {"open", "truncate"} => disk' = disk
               /\ RowChars(E') = RowChars(E)
      /\ SaveAborted =>
            /\ E'.dirty = E.dirty
            /\ RowChars(E') = RowChars(E)
            /\ E'.filename = NoName
            /\ disk' = disk ]_vars

\* a modified buffer whose save-as ended in a short write: the new file holds
\* no byte of the buffer and the buffer is still marked modified
C14_Witness ==
  /\ pc = "edit"
  /\ E.filename # NoName
  /\ E.dirty # 0
  /\ E.numrows >= 1
  /\ disk = [i \in 1..RowsToStringLen(E) |-> NUL]

(***************************************************************************)
(* The viewport under cursor keys and search                               *)
(***************************************************************************)
MaxViewKeys == 6
MaxOffset == 9

ViewFindKeys == {"a", KEY_ARROW_RIGHT, KEY_ARROW_LEFT, ESC, ENTER}

InitView ==
  \E s \in CursorScreens, p \in CursorPrograms :
     Start(s, p.hasfile, p.filename, p.file, MaxViewKeys)

NextView ==
  \/ KeyFind
  \/ KeyHome
  \/ KeyEnd
  \/ \E c \in PageKeys : KeyPage(c)
  \/ \E c \in ArrowKeys : KeyArrow(c)
  \/ \E c \in ViewFindKeys : FindKey(c)

SpecView == InitView /\ [][NextView]_vars

\* the cursor of e is inside the window given by e's offsets
InView(e) ==
  /\ e.rowoff >= 0 /\ e.coloff >= 0
  /\ e.rowoff <= e.cy /\ e.cy < e.rowoff + e.screenrows
  /\ e.coloff <= e.rx /\ e.rx < e.coloff + e.screencols

\* C15: with screenrows >= 1 and screencols >= 1 the state left by
\* editorScroll has the cursor inside the window, and editorScroll applied to
\* the buffer with any other offsets, up to rowoff = numrows, puts the cursor
\* inside the window and leaves cx and cy as they were.
C15_ViewportDerivation ==
  (E.screenrows >= 1 /\ E.screencols >= 1 /\ CursorValid(E)) =>
     /\ InView(E)
     /\ E.rx = (IF E.cy < E.numrows THEN rowCxToRx(E.row[E.cy + 1], E.cx) ELSE 0)
     /\ \A ro \in 0..E.numrows, co \in 0..MaxOffset :
           LET s == editorScroll([E EXCEPT !.rowoff = ro, !.coloff = co])
           IN  InView(s) /\ s.cx = E.cx /\ s.cy = E.cy

\* a search hit on the last of three rows: the row offset forced to numrows
\* has been pulled back so that the hit is the top row of the window
C15_Witness ==
  /\ pc = "find"
  /\ E.numrows = 3 /\ E.screenrows = 2
  /\ find.last_match = 2 /\ E.cy = 2
  /\ E.rowoff = 2

(***************************************************************************)
(* Search sessions on highlighted rows                                     *)
(***************************************************************************)
MaxSessionKeys == 5

SessionKeys == {"a", "/", KEY_ARROW_RIGHT, KEY_ARROW_LEFT, KEY_BACKSPACE, ESC, ENTER}

InitSession ==
  \E s \in Screens, p \in CursorPrograms :
     Start(s, p.hasfile, p.filename, p.file, MaxSessionKeys)

NextSession ==
  \/ KeyFind
  \/ KeyChar("*")
  \/ KeyArrow(KEY_ARROW_DOWN)
  \/ \E c \in SessionKeys : FindKey(c)

SpecSession == InitSession /\ [][NextSession]_vars

AllHlOf(e) == [i \in 1..e.numrows |-> e.row[i].hl]

\* rows (0-based) with at least one character of the match class
MatchRows(e) ==
  {r \in 0..(e.numrows - 1) :
      \E j \in 1..Len(e.row[r + 1].hl) : e.row[r + 1].hl[j] = HL_MATCH}

\* the highlight classes under the overlay: those of e with the snapshot put
\* back on its row
Underlying(e, f) ==
  [i \in 1..e.numrows |->
     IF f.saved_hl # NULL_HL /\ i = f.saved_hl_line + 1 THEN f.saved_hl
     ELSE e.row[i].hl]

\* C16: in a search session at most one row carries the match class, and it
\* is the row of the one snapshot held; opening the prompt and every key in it
\* leave the classes under the overlay as they were; when the session ends by
\* Enter or Escape no snapshot is held, no character has the match class and
\* every row's classes are those under the overlay, hence those from before
\* the search.
C16_SearchHighlightNeutral ==
  [][ /\ find'.held \in {0, 1}
      /\ find'.held = 1 <=> find'.saved_hl # NULL_HL
      /\ MatchRows(E') \subseteq {find'.saved_hl_line}
      /\ (pc = "edit" /\ pc' = "find") =>
            (find'.held = 0 /\ AllHlOf(E') = AllHlOf(E))
      /\ (pc = "find" /\ pc' = "find") =>
            Underlying(E', find') = Underlying(E, find)
      /\ (pc = "find" /\ pc' = "edit") =>
            /\ find'.held = 0
            /\ MatchRows(E') = {}
            /\ AllHlOf(E') = Underlying(E, find) ]_vars

\* a session on a C file that hit "a" in the comment row and was confirmed
\* there: the row that carried the overlay is all block comment again
C16_Witness ==
  /\ pc = "edit"
  /\ budget = MaxSessionKeys - 3
  /\ E.syntax # NoSyntax /\ E.dirty = 0
  /\ E.numrows = 3
  /\ E.row[3].hl = <<HL_MLCOMMENT>>
  /\ find.held = 0 /\ find.saved_hl = NULL_HL
  /\ MatchRows(E) = {}
  /\ E.cy = 2 /\ E.cx = 0

(***************************************************************************)
(* Leaving a search                                                        *)
(***************************************************************************)
Position(e) == [cx |-> e.cx, cy |-> e.cy, coloff |-> e.coloff, rowoff |-> e.rowoff]

\* C17: Ctrl-F records the cursor and the offsets the screen has at that
\* moment and no key of the prompt changes the record; Escape puts the cursor
\* and both offsets back to the recorded values; Enter leaves the cursor where
\* it is, and the cursor moves inside a session only onto a hit; both ways of
\* leaving clear the search state (no last match, direction forward).
C17_SearchCancelRestores ==
  [][ /\ KeyFind => (saved' = Position(E) /\ Position(E') = Position(E))
      /\ (pc = "find" /\ pc' = "find") =>
            /\ saved' = saved
            /\ (E'.cx # E.cx \/ E'.cy # E.cy) =>
                  /\ find'.last_match = E'.cy
                  /\ find'.saved_hl_line = E'.cy
                  /\ RowHas(E', E'.cy, buf')
      /\ FindKey(ESC) =>
            /\ pc' = "edit"
            /\ Position(E') = saved
            /\ find'.last_match = -1 /\ find'.direction = 1
      /\ (FindKey(ENTER) /\ pc' = "edit") =>
            /\ E'.cx = E.cx /\ E'.cy = E.cy
            /\ find'.last_match = -1 /\ find'.direction = 1 ]_vars

\* on the one-cell terminal: the search was opened at the end of row 1, and
\* after Escape the cursor and both offsets are those of that place again
C17_Witness ==
  /\ pc = "edit"
  /\ budget = MaxViewKeys - 5
  /\ E.screenrows = 1 /\ E.screencols = 1
  /\ E.syntax = NoSyntax
  /\ Position(E) = [cx |-> 3, cy |-> 1, coloff |-> 3, rowoff |-> 1]
  /\ find = FindInit

(***************************************************************************)
(* A search step that finds nothing                                        *)
(***************************************************************************)
\* a key of the search prompt after which no row contains the query
NoMatchStep ==
  /\ pc = "find" /\ pc' = "find"
  /\ E.numrows > 0
  /\ \A r \in 0..(E.numrows - 1) : ~RowHas(E, r, buf')

\* C18 as stated: a search step whose query no row contains leaves the
\* cursor, the offsets, the rows' characters and every row's highlight
\* classes unchanged and installs no overlay.
C18_NoMatchChangesNothing ==
  [][ NoMatchStep =>
         /\ Position(E') = Position(E)
         /\ RowChars(E') = RowChars(E)
         /\ AllHlOf(E') = AllHlOf(E)
         /\ MatchRows(E') = {} /\ find'.held = 0 ]_vars

\* C18 amended: such a step leaves the cursor, the offsets and the rows'
\* characters unchanged and installs no overlay; it removes the overlay of
\* the previous hit, so every row's classes are those under that overlay.
C18_NoMatchKeepsUnderlying ==
  [][ NoMatchStep =>
         /\ Position(E') = Position(E)
         /\ RowChars(E') = RowChars(E)
         /\ AllHlOf(E') = Underlying(E, find)
         /\ MatchRows(E') = {} /\ find'.held = 0
         /\ find'.last_match = -1
         /\ Len(scanned') = E.numrows ]_vars

\* "a" was found on the last row of the C file, then "aa" on no row: all
\* rows were scanned, the cursor is still on the last row, without overlay
C18_Witness ==
  /\ pc = "find"
  /\ buf = <<"a", "a">>
  /\ E.syntax # NoSyntax /\ E.numrows = 3
  /\ Len(scanned) = 3
  /\ find.last_match = -1
  /\ E.cy = 2 /\ E.cx = 0
  /\ MatchRows(E) = {}
  /\ E.row[3].hl = <<HL_MLCOMMENT>>

(***************************************************************************)
(* The two bars on narrow and wide terminals                               *)
(***************************************************************************)
MaxBarKeys == 3

BarScreens == {<<2, 1>>, <<2, 12>>, <<2, 40>>}

NameLong == <<"a", "b", "c", "d", "e", "f", "g", "h", "i", "j", "k", "l", "m", "n", "o", "p", "q", "r", "s", "t", "u", "v", ".", "c">>

\* eleven rows, so that the row count has two digits
ElevenRows == FileOf([i \in 1..11 |-> <<"a">>])

BarPrograms ==
  {[hasfile |-> FALSE, filename |-> NoName, file |-> <<>>],
   [hasfile |-> TRUE, filename |-> NameTxt, file |-> TabFile],
   [hasfile |-> TRUE, filename |-> NameLong, file |-> ElevenRows]}

BarPromptKeys == {"c", ESC, ENTER}

InitBar ==
  \E s \in BarScreens, p \in BarPrograms :
     Start(s, p.hasfile, p.filename, p.file, MaxBarKeys)

NextBar ==
  \/ KeyQuit
  \/ KeySave
  \/ KeyFind
  \/ KeyChar("*")
  \/ KeyArrow(KEY_ARROW_DOWN)
  \/ \E c \in BarPromptKeys : FindKey(c)
  \/ \E c \in BarPromptKeys : SaveAsKey(c)

SpecBar == InitBar /\ [][NextBar]_vars

\* C19: the status bar text, left part, padding and right part together, is
\* at most screencols characters long, and the message bar shows at most the
\* first screencols characters of the message.
C19_BarsFitScreen ==
  /\ Len(editorDrawStatusBar(E)) <= E.screencols
  /\ \A fresh \in BOOLEAN :
        LET shown == editorDrawMessageBar(E, fresh)
        IN  /\ Len(shown) <= E.screencols
            /\ shown = SubSeq(E.statusmsg, 1, Len(shown))

\* twelve columns, a file name of more than twenty characters, a modified
\* buffer and the quit warning: both bars are cut to twelve characters
C19_Witness ==
  /\ E.screencols = 12
  /\ Len(E.filename) > 20
  /\ E.dirty # 0
  /\ E.statusmsg = Snprintf(MSG_SIZE, QuitWarning(QUIT_TIMES))
  /\ Len(StatusText(E)) > 12
  /\ Len(editorDrawStatusBar(E)) = 12
  /\ Len(editorDrawMessageBar(E, TRUE)) = 12

(***************************************************************************)
(* Edits inside a row above a block comment                                *)
(***************************************************************************)
MaxInlineKeys == 4

\* a row that opens a comment once "*" is typed after "/", a row inside, the
\* row that closes it, a row after
PropFile == FileOf(<< <<"/">>, <<"a">>, <<"*", "/">>, <<"a">> >>)

InlinePrograms ==
  {[hasfile |-> TRUE, filename |-> NameC, file |-> PropFile],
   [hasfile |-> TRUE, filename |-> NameC, file |-> OpenerFile]}

InitInline ==
  \E s \in Screens, p \in InlinePrograms :
     Start(s, p.hasfile, p.filename, p.file, MaxInlineKeys)

NextInline ==
  \/ \E c \in InsertChars : KeyChar(c)
  \/ \E c \in {KEY_BACKSPACE, KEY_DEL} : KeyDelete(c)
  \/ \E c \in ArrowKeys : KeyArrow(c)

SpecInline == InitInline /\ [][NextInline]_vars

\* a key that inserts a character into an existing row (rowInsertChar) or
\* deletes one from the row of the cursor (rowDelChar)
InlineStep ==
  /\ pc = "edit"
  /\ E.cy < E.numrows
  /\ \/ \E c \in InsertChars : KeyChar(c)
     \/ KeyDelete(KEY_BACKSPACE) /\ E.cx > 0
     \/ KeyDelete(KEY_DEL) /\ E.cx < E.row[E.cy + 1].size

\* the rows highlighted by the update of row cy whose characters became
\* those of e2
VisitsOfEdit(e, e2) ==
  LET k == e.cy
      render == e2.row[k + 1].render
      rows1 == [e.row EXCEPT ![k + 1].chars = e2.row[k + 1].chars,
                             ![k + 1].size = e2.row[k + 1].size,
                             ![k + 1].render = render,
                             ![k + 1].rsize = Len(render)]
  IN  SyntaxVisits(rows1, k, e.numrows, e.syntax,
                   k > 0 /\ e.row[k].hl_open_comment, <<>>)

\* C20: an insert or delete of one character inside a row of a consistently
\* highlighted buffer returns to the main loop having highlighted the edited
\* row, then the rows below it one after the other, each once, for as long as
\* the row above changed its open-comment flag and rows remain; rows not
\* visited keep their classes; afterwards all rows equal a highlight pass
\* from scratch.
C20_InlineEditPropagates ==
  [][ (InlineStep /\ HlConsistent(E)) =>
         LET v == VisitsOfEdit(E, E')
             last == v[Len(v)]
             Flag(e, r) == e.row[r + 1].hl_open_comment
         IN  /\ pc' = "edit"
             /\ HlConsistent(E')
             /\ v[1] = E.cy
             /\ \A j \in 1..(Len(v) - 1) :
                   v[j + 1] = v[j] + 1 /\ Flag(E', v[j]) # Flag(E, v[j])
             /\ last < E.numrows
             /\ (Flag(E', last) = Flag(E, last) \/ last = E.numrows - 1)
             /\ \A r \in 0..(E.numrows - 1) :
                   (r < E.cy \/ r > last) =>
                      (E'.row[r + 1].hl = E.row[r + 1].hl /\ Flag(E', r) = Flag(E, r))
    ]_vars

(***************************************************************************)
(* Key decoding: every sequence that stands for a key                      *)
(***************************************************************************)
MaxTail == 2

\* 0xE9 stands for a byte above 127
PlainBytes == {"x", "q", "~", "[", "O", "A", "1", "0xE9"}

SeqLetters == {"A", "B", "C", "D", "H", "F", "x"}

SeqDigits == {"1", "2", "3", "4", "5", "6", "7", "8"}

\* what the terminal sends for one key press: a single byte, or an escape
\* byte with two or three bytes after it
KeyBytes ==
  {<<c>> : c \in PlainBytes \cup {ESC}}
  \cup {<<ESC, a, b>> : a \in {"[", "O", "x"}, b \in SeqLetters}
  \cup {<<ESC, "[", d, t>> : d \in SeqDigits, t \in {"~", "x", "A"}}

\* bytes that arrive after the first key press
TailBytes == {"x", ESC}

InitMap ==
  \E s \in Screens, first \in KeyBytes, tail \in RowsOver(TailBytes, MaxTail) :
     StartOn(s, FALSE, NoName, <<>>, 0, first \o tail)

NextMap == ReadKey

SpecMap == InitMap /\ [][NextMap]_vars

\* the call consumed exactly the bytes seq and returned key
Decoded(seq, key) == keyin'.used = seq => keyin'.key = key

\* C21: each call of the decoder consumes a prefix of the waiting bytes and
\* returns one key: ESC [ A/B/C/D give arrow up/down/right/left, ESC [ H and
\* ESC [ F home and end, ESC [ 1 ~ and ESC [ 7 ~ home, ESC [ 4 ~ and ESC [ 8 ~
\* end, ESC [ 3 ~ delete, ESC [ 5 ~ and ESC [ 6 ~ page up and page down,
\* ESC O H and ESC O F home and end; a first byte other than escape is
\* consumed alone and returned as it is.
C21_EscapeMapping ==
  [][ ReadKey =>
        /\ keyin.stream = keyin'.used \o keyin'.stream
        /\ keyin'.used # <<>>
        /\ Decoded(<<ESC, "[", "A">>, KEY_ARROW_UP)
        /\ Decoded(<<ESC, "[", "B">>, KEY_ARROW_DOWN)
        /\ Decoded(<<ESC, "[", "C">>, KEY_ARROW_RIGHT)
        /\ Decoded(<<ESC, "[", "D">>, KEY_ARROW_LEFT)
        /\ Decoded(<<ESC, "[", "H">>, KEY_HOME)
        /\ Decoded(<<ESC, "[", "F">>, KEY_END)
        /\ Decoded(<<ESC, "[", "1", "~">>, KEY_HOME)
        /\ Decoded(<<ESC, "[", "7", "~">>, KEY_HOME)
        /\ Decoded(<<ESC, "[", "4", "~">>, KEY_END)
        /\ Decoded(<<ESC, "[", "8", "~">>, KEY_END)
        /\ Decoded(<<ESC, "[", "3", "~">>, KEY_DEL)
        /\ Decoded(<<ESC, "[", "5", "~">>, KEY_PAGE_UP)
        /\ Decoded(<<ESC, "[", "6", "~">>, KEY_PAGE_DOWN)
        /\ Decoded(<<ESC, "O", "H">>, KEY_HOME)
        /\ Decoded(<<ESC, "O", "F">>, KEY_END)
        /\ keyin'.used[1] # ESC =>
              keyin'.used = <<keyin'.used[1]>> /\ keyin'.key = keyin'.used[1]
    ]_vars

\* ESC [ D was decoded as arrow left and the two bytes behind it are still
\* waiting for the next calls
C21_Witness ==
  /\ keyin.used = <<ESC, "[", "D">>
  /\ keyin.key = KEY_ARROW_LEFT
  /\ keyin.stream = <<"x", ESC>>

(***************************************************************************)
(* Strings, block comments and line comments on one row                    *)
(***************************************************************************)
MaxPrioLen == 4
MaxPrioKeys == 1

PrioChars == {"/", "*", QUOTE, APOS, BACKSLASH}

\* a.c holding one line, alone or below a row that opens a block comment
InitPrio ==
  \E s \in Screens, line \in RowsOver(PrioChars, MaxPrioLen), below \in BOOLEAN :
     Start(s, TRUE, NameC,
           (IF below THEN <<"/", "*", LF>> ELSE <<>>) \o line \o <<LF>>, MaxPrioKeys)

NextPrio ==
  \/ KeyChar("/")
  \/ KeyEnd

SpecPrio == InitPrio /\ [][NextPrio]_vars

\* The parts of a row, read from the left: "string" from a quote to its
\* match (a backslash takes the next character with it), "block" from /* to
\* */ or from the start of a row that begins inside a block comment, "line"
\* from a // outside both to the end of the row, "code" for the rest; open
\* tells whether the row ends inside a block comment.
RECURSIVE Regions(_, _, _, _, _)
Regions(render, i, quote, block, tags) ==
  IF i >= Len(render) THEN [tags |-> tags, open |-> block]
  ELSE
    LET c == render[i + 1]
    IN  IF quote # NUL
        THEN IF c = BACKSLASH /\ i + 1 < Len(render)
             THEN Regions(render, i + 2, quote, block, tags \o <<"string", "string">>)
             ELSE Regions(render, i + 1, IF c = quote THEN NUL ELSE quote, block,
                          Append(tags, "string"))
        ELSE IF block
        THEN IF StartsWith(render, i, <<"*", "/">>)
             THEN Regions(render, i + 2, NUL, FALSE, tags \o <<"block", "block">>)
             ELSE Regions(render, i + 1, NUL, TRUE, Append(tags, "block"))
        ELSE IF StartsWith(render, i, <<"/", "/">>)
        THEN [tags |-> tags \o [j \in 1..(Len(render) - i) |-> "line"], open |-> FALSE]
        ELSE IF StartsWith(render, i, <<"/", "*">>)
        THEN Regions(render, i + 2, NUL, TRUE, tags \o <<"block", "block">>)
        ELSE IF c = QUOTE \/ c = APOS
        THEN Regions(render, i + 1, c, FALSE, Append(tags, "string"))
        ELSE Regions(render, i + 1, NUL, FALSE, Append(tags, "code"))

\* row r (from 1) of e is classified by the parts it consists of
PriorityHolds(e, r) ==
  LET row == e.row[r]
      reg == Regions(row.render, 0, NUL, r > 1 /\ e.row[r - 1].hl_open_comment, <<>>)
      LineMarker(i) == StartsWith(row.render, i - 1, <<"/", "/">>)
      BlockStart(i) == StartsWith(row.render, i - 1, <<"/", "*">>)
  IN  /\ Len(reg.tags) = row.rsize
      /\ \A i \in 1..row.rsize :
            /\ row.hl[i] = HL_COMMENT <=> reg.tags[i] = "line"
            /\ (LineMarker(i) /\ reg.tags[i] = "string") =>
                  (row.hl[i] = HL_STRING /\ row.hl[i + 1] = HL_STRING)
            /\ (LineMarker(i) /\ reg.tags[i] = "block") => row.hl[i] = HL_MLCOMMENT
            /\ (LineMarker(i) /\ reg.tags[i] = "block" /\ reg.tags[i + 1] = "block") =>
                  row.hl[i + 1] = HL_MLCOMMENT
            /\ (BlockStart(i) /\ reg.tags[i] = "string") =>
                  (row.hl[i] = HL_STRING /\ row.hl[i + 1] = HL_STRING)
      /\ ( /\ ~(r > 1 /\ e.row[r - 1].hl_open_comment)
           /\ \A i \in 1..row.rsize : BlockStart(i) => reg.tags[i] = "string" )
         => ~row.hl_open_comment
      /\ row.hl_open_comment = reg.open

\* C22: on every row of a C buffer, "//" makes the rest of the row a comment
\* exactly when it is met outside a string and outside a block comment; met
\* inside a string it is classified string, inside a block comment
\* block-comment; "/*" inside a string is classified string, and a row whose
\* only "/*" are inside strings, and which does not begin inside a block
\* comment, does not end inside one.
C22_HighlightPriority ==
  (pc = "edit" /\ E.syntax # NoSyntax) =>
     \A r \in 1..E.numrows : PriorityHolds(E, r)

\* "/" typed in front of the string "/*": the marker inside the string is
\* string, the row does not open a block comment
C22_Witness ==
  /\ pc = "edit" /\ E.numrows = 1 /\ E.dirty = 1
  /\ E.row[1].render = <<"/", QUOTE, "/", "*", QUOTE>>
  /\ E.row[1].hl = <<HL_NORMAL, HL_STRING, HL_STRING, HL_STRING, HL_STRING>>
  /\ ~E.row[1].hl_open_comment

(***************************************************************************)
(* Row numbering                                                           *)
(***************************************************************************)
\* C23: in every state the row stored at position i has idx = i, for all
\* 0 <= i < numrows, whatever rows were inserted (load, Enter) or removed
\* (join) before; the row editorUpdateSyntax reads at idx - 1 is the row
\* stored just above.
C23_RowIndexInvariant ==
  /\ E.numrows = Len(E.row)
  /\ \A i \in 0..(E.numrows - 1) :
        /\ E.row[i + 1].idx = i
        /\ i > 0 => E.row[E.row[i + 1].idx] = E.row[i]

\* Enter at the start of the middle row of three: an empty row was inserted
\* at position 1 and the two rows below it were renumbered
C23_Witness ==
  /\ pc = "edit" /\ E.numrows = 4 /\ E.cy = 2 /\ E.dirty # 0
  /\ E.row[2].chars = <<>> /\ E.row[2].idx = 1
  /\ E.row[3].chars = <<"/", "*">> /\ E.row[3].idx = 2
  /\ E.row[4].idx = 3

(***************************************************************************)
(* Rows with tabs under edits                                              *)
(***************************************************************************)
MaxRenderKeys == 4

\* tab, a, tab over a (tab at columns 0 and 9), and seven characters before
\* a tab (tab at column 7, one column wide) over a short row
RenderFiles ==
  {FileOf(<< <<TAB, "a", TAB>>, <<"a", TAB>> >>),
   FileOf(<< <<"a", "a", "a", "a", "a", "a", "a", TAB>>, <<TAB>> >>)}

InitRender ==
  \E s \in Screens, f \in RenderFiles : Start(s, TRUE, NameTxt, f, MaxRenderKeys)

NextRender ==
  \/ KeyChar("b")
  \/ \E c \in {KEY_BACKSPACE, KEY_DEL} : KeyDelete(c)
  \/ KeyEnter
  \/ \E c \in {KEY_ARROW_RIGHT, KEY_ARROW_DOWN} : KeyArrow(c)
  \/ KeyEnd

SpecRender == InitRender /\ [][NextRender]_vars

\* the characters with each tab replaced by spaces up to the next multiple
\* of 8 columns
RECURSIVE TabExpand(_)
TabExpand(chars) ==
  IF chars = <<>> THEN <<>>
  ELSE LET before == TabExpand(SubSeq(chars, 1, Len(chars) - 1))
           last == chars[Len(chars)]
       IN  IF last = TAB
           THEN before \o [j \in 1..(8 - (Len(before) % 8)) |-> SPACE]
           ELSE Append(before, last)

\* C24: in every state every row's render is the tab expansion of its
\* characters as they are now, holds no tab, and has length rsize =
\* rowCxToRx(row, row.size); so after character insert, character delete,
\* the split of a row by Enter and the join of two rows.
C24_RenderFresh ==
  \A i \in 1..E.numrows :
     LET row == E.row[i]
     IN  /\ Len(row.chars) = row.size
         /\ row.render = TabExpand(row.chars)
         /\ \A j \in 1..Len(row.render) : row.render[j] # TAB
         /\ row.rsize = Len(row.render)
         /\ row.rsize = rowCxToRx(row, row.size)

\* a a a a a a a tab split by Enter after its first character: the row kept
\* "a", the new row has the tab at column 6, two columns wide
C24_Witness ==
  /\ pc = "edit" /\ E.numrows = 3 /\ E.cy = 1 /\ E.cx = 0
  /\ E.row[1].chars = <<"a">> /\ E.row[1].render = <<"a">>
  /\ E.row[2].chars = <<"a", "a", "a", "a", "a", "a", TAB>>
  /\ E.row[2].render = <<"a", "a", "a", "a", "a", "a", SPACE, SPACE>>
  /\ E.row[2].rsize = 8

=============================================================================
